---------------------------- MODULE Spec2Model ----------------------------
(***************************************************************************)
(* streamsh: a wrapper (Client) runs a shell in a PTY, mirrors its output  *)
(* lines into a local RingBuffer and publishes them to a daemon over a     *)
(* Unix socket; the daemon keeps one Session (with a RingBuffer) per       *)
(* wrapper id in a Store and answers control requests (list_sessions,      *)
(* query_session, write_session) on other connections of the same socket.  *)
(*                                                                         *)
(* Strings are sequences of one-character strings, so that prefixes, case  *)
(* folding, ANSI stripping and JSON escaping are computed, not assumed.    *)
(***************************************************************************)
EXTENDS Integers, Sequences, FiniteSets, TLC

(***************************************************************************)
(* Bounds of the model.                                                    *)
(***************************************************************************)
\* connections ever dialed on the daemon socket (wrapper and control)
MaxConn == 3
\* lines the PTY copier hands to the publisher in one run
MaxOut == 2
\* control requests the tool host sends in one run
MaxReq == 2
\* connections the tool host dials in one run
MaxCtlConn == 1
\* connections dialed by other processes speaking the wrapper's side of the
\* protocol, and the records they send in one run
MaxPeers == 2
MaxSend == 3
\* times the daemon process goes away in one run
MaxCrash == 1
\* non-empty commands the stdin copier detects in one run
MaxCmd == 1
\* capacity of the wrapper's local mirror (NewRingBuffer(10000) in Run,
\* scaled down; it stays >= MaxOut + 1 so the mirror never evicts, as in a
\* run of fewer than 10000 lines)
LocalBufCap == 3
\* the daemon's -buffer-size flag (Daemon.BufferSize), the capacity of every
\* session buffer the wrapper's register creates
DaemonBufferSize == 2

\* largest capacity a RingBuffer is constructed with
MaxCap == 3
\* NewRingBuffer, Append and Clear calls on the RingBuffer in one run
MaxOps == 5
\* Append and Clear calls made while other tasks read
MaxWrites == 3
\* the buffer_size a peer's register asks for
QueryBufferSize == 110
\* lines in one large output record
FillLen == 70

\* sessions in the Store of a caller that creates, removes and looks up
MaxSessions == 3

\* streamshd processes started on one path in one run
MaxStarts == 3

\* lines in the mirror of a wrapper that has run without a daemon; more
\* than chunkSize, so that a replay takes several records
MaxMirror == 3

\* records the wrapper's tasks write to the socket in one run
MaxRecords == 3
\* pieces the bytes of one record reach the socket in
MaxFrags == 2

\* bytes the user types in one run, and the most one read returns
MaxStdin == 4
MaxRead == 2
\* bytes the shell prints in one run
MaxPty == 4

\* query_session: results of a search that names no max_results
DefaultMaxResults == 50
\* query_session: lines of a cursor read that names no count
DefaultCount == 100

(***************************************************************************)
(* Strings.                                                                *)
(***************************************************************************)
\* the empty Go string
Empty == <<>>

\* strings.ToLower on one character of the model's alphabet
LowerChar(ch) ==
    CASE ch = "A" -> "a"
      [] ch = "B" -> "b"
      [] ch = "D" -> "d"
      [] ch = "T" -> "t"
      [] OTHER -> ch

ToLower(s) == [i \in DOMAIN s |-> LowerChar(s[i])]

HasPrefix(s, p) == Len(p) <= Len(s) /\ SubSeq(s, 1, Len(p)) = p

\* "ESC" stands for one complete ANSI escape sequence (CSI, OSC or a
\* two-byte escape); stripansi.Strip deletes every such sequence and keeps
\* all other characters in order.
Strip(s) == SelectSeq(s, LAMBDA ch : ch # "ESC")

\* encoding/json string escaping on the wire: a line feed becomes the two
\* characters backslash n, a backslash is doubled; a record is one line.
RECURSIVE JSONEscape(_)
JSONEscape(s) ==
    IF s = <<>> THEN <<>>
    ELSE LET h == Head(s)
             e == CASE h = "\n" -> <<"\\", "n">>
                    [] h = "\\" -> <<"\\", "\\">>
                    [] OTHER -> <<h>>
         IN e \o JSONEscape(Tail(s))

RECURSIVE JSONUnescape(_)
JSONUnescape(s) ==
    IF s = <<>> THEN <<>>
    ELSE IF Head(s) = "\\" /\ Len(s) >= 2
         THEN (IF s[2] = "n" THEN <<"\n">> ELSE <<s[2]>>)
              \o JSONUnescape(SubSeq(s, 3, Len(s)))
         ELSE <<Head(s)>> \o JSONUnescape(Tail(s))

(***************************************************************************)
(* RingBuffer (ring buffer source).  lines is the slot array, indexed from *)
(* 1 here (slot i of the code is lines[i+1]).                              *)
(***************************************************************************)
\* totalSeq is a uint64; no run of the model comes near 2^64 appends, so
\* its wrap-around is not modelled.
NewRingBuffer(capacity) ==
    LET c == IF capacity <= 0 THEN 100000 ELSE capacity
    IN [lines |-> [i \in 1..c |-> Empty], cap |-> c,
        head |-> 0, count |-> 0, totalSeq |-> 0]

\* Append counting the line also when the buffer is full
RBAppend_CountAlways(rb, line) ==
    [rb EXCEPT !.lines[rb.head + 1] = line,
               !.head = (rb.head + 1) % rb.cap,
               !.count = rb.count + 1,
               !.totalSeq = rb.totalSeq + 1]

\* Append dropping the line when the buffer is full
RBAppend_NoEvict(rb, line) ==
    IF rb.count = rb.cap THEN [rb EXCEPT !.totalSeq = rb.totalSeq + 1]
    ELSE [rb EXCEPT !.lines[rb.head + 1] = line,
                    !.head = (rb.head + 1) % rb.cap,
                    !.count = rb.count + 1,
                    !.totalSeq = rb.totalSeq + 1]

RBAppend(rb, line) ==
    [rb EXCEPT !.lines[rb.head + 1] = line,
               !.head = (rb.head + 1) % rb.cap,
               !.count = IF rb.count < rb.cap THEN rb.count + 1 ELSE rb.count,
               !.totalSeq = rb.totalSeq + 1]

\* for _, line := range lines { Append(line) }: the lines in order, the
\* first half of the list and then the second
RECURSIVE RBAppendAll(_, _)
RBAppendAll(rb, ls) ==
    IF ls = <<>> THEN rb
    ELSE IF Len(ls) = 1 THEN RBAppend(rb, ls[1])
    ELSE LET h == Len(ls) \div 2
             first == RBAppendAll(rb, SubSeq(ls, 1, h))
         IN IF first.cap = rb.cap
            THEN RBAppendAll(first, SubSeq(ls, h + 1, Len(ls)))
            ELSE first

RBLen(rb) == rb.count

\* LastN starting at the oldest retained line
RBLastN_FromOldest(rb, n0) ==
    LET n == IF n0 > rb.count THEN rb.count ELSE n0
    IN IF n <= 0 THEN <<>>
       ELSE LET start == (rb.head - rb.count + rb.cap) % rb.cap
            IN [i \in 1..n |-> rb.lines[((start + i - 1) % rb.cap) + 1]]

RBLastN(rb, n0) ==
    LET n == IF n0 > rb.count THEN rb.count ELSE n0
    IN IF n <= 0 THEN <<>>
       ELSE LET start == (rb.head - n + rb.cap) % rb.cap
            IN [i \in 1..n |-> rb.lines[((start + i - 1) % rb.cap) + 1]]

RBAllLines(rb) ==
    IF rb.count = 0 THEN <<>>
    ELSE LET start == (rb.head - rb.count + rb.cap) % rb.cap
         IN [i \in 1..rb.count |-> rb.lines[((start + i - 1) % rb.cap) + 1]]

\* Clear leaving totalSeq as it is
RBClear_KeepSeq(rb) ==
    [rb EXCEPT !.head = 0, !.count = 0,
               !.lines = [i \in 1..rb.cap |-> Empty]]

RBClear(rb) ==
    [rb EXCEPT !.head = 0, !.count = 0, !.totalSeq = 0,
               !.lines = [i \in 1..rb.cap |-> Empty]]

\* Append returning totalSeq after the increment
RBAppendSeq_After(b) == b.totalSeq + 1

\* the sequence number Append returns
RBAppendSeq(b) == b.totalSeq

RBTotalSeq(b) == b.totalSeq

\* ReadRange computing the next cursor from the from it was given
RBReadRange_NextFromGiven(b, from0, count0) ==
    IF b.count = 0 \/ count0 <= 0
    THEN [lines |-> <<>>, next |-> from0, hasMore |-> FALSE]
    ELSE LET oldestSeq == b.totalSeq - b.count
             from == IF from0 < oldestSeq THEN oldestSeq ELSE from0
         IN IF from >= b.totalSeq
            THEN [lines |-> <<>>, next |-> from, hasMore |-> FALSE]
            ELSE LET available == b.totalSeq - from
                     count == IF count0 > available THEN available
                              ELSE count0
                     offset == from - oldestSeq
                     startIdx == (b.head - b.count + offset + b.cap) % b.cap
                     nextCursor == from0 + count
                 IN [lines |-> [i \in 1..count |->
                                  b.lines[((startIdx + i - 1) % b.cap) + 1]],
                     next |-> nextCursor,
                     hasMore |-> nextCursor < b.totalSeq]

\* from0 is a uint64, so never negative
RBReadRange(b, from0, count0) ==
    IF b.count = 0 \/ count0 <= 0
    THEN [lines |-> <<>>, next |-> from0, hasMore |-> FALSE]
    ELSE LET oldestSeq == b.totalSeq - b.count
             from == IF from0 < oldestSeq THEN oldestSeq ELSE from0
         IN IF from >= b.totalSeq
            THEN [lines |-> <<>>, next |-> from, hasMore |-> FALSE]
            ELSE LET available == b.totalSeq - from
                     count == IF count0 > available THEN available
                              ELSE count0
                     offset == from - oldestSeq
                     startIdx == (b.head - b.count + offset + b.cap) % b.cap
                     nextCursor == from + count
                 IN [lines |-> [i \in 1..count |->
                                  b.lines[((startIdx + i - 1) % b.cap) + 1]],
                     next |-> nextCursor,
                     hasMore |-> nextCursor < b.totalSeq]

\* strings.Contains
Contains(s, substr) ==
    \E i \in 0..(Len(s) - Len(substr)) :
        SubSeq(s, i + 1, i + Len(substr)) = substr

SearchResult(seq, line) == [seq |-> seq, line |-> line]

\* the loop of Search over the positions i..j-1 of the retained lines,
\* in order (the first half of the range and then the second); the loop
\* condition is tested before each position
RECURSIVE SearchLoop(_, _, _, _, _, _)
SearchLoop(b, lowerPattern, maxResults, i, j, results) ==
    IF j <= i THEN results
    ELSE IF j = i + 1
    THEN IF ~(i < b.count /\ Len(results) < maxResults) THEN results
         ELSE LET oldestSeq == b.totalSeq - b.count
                  startIdx == (b.head - b.count + b.cap) % b.cap
                  idx == (startIdx + i) % b.cap
                  line == b.lines[idx + 1]
              IN IF Contains(ToLower(line), lowerPattern)
                 THEN Append(results, SearchResult(oldestSeq + i, line))
                 ELSE results
    ELSE LET mid == (i + j) \div 2
             first == SearchLoop(b, lowerPattern, maxResults, i, mid, results)
         IN IF Len(first) >= Len(results)
            THEN SearchLoop(b, lowerPattern, maxResults, mid, j, first)
            ELSE first

\* Search comparing the lowered line with the pattern as given
RBSearch_NoLower(b, pattern, maxResults) ==
    IF b.count = 0 \/ maxResults <= 0 THEN <<>>
    ELSE SearchLoop(b, pattern, maxResults, 0, b.count, <<>>)

RBSearch(b, pattern, maxResults) ==
    IF b.count = 0 \/ maxResults <= 0 THEN <<>>
    ELSE SearchLoop(b, ToLower(pattern), maxResults, 0, b.count, <<>>)


(***************************************************************************)
(* Identifiers.  A session id is a UUID string; the model's UUIDs are the  *)
(* three-character strings below (the code's are 36 characters, and the    *)
(* short id is the first 8 of them; here the first 2).                     *)
(***************************************************************************)
\* the id the wrapper assigns itself in Run (uuid.New())
WID == <<"a", "b", "1">>
\* a well-formed id that no wrapper of the model owns
OtherID == <<"d", "e", "2">>
\* two more ids uuid.New() can return: one with the short id of WID, one
\* that shares only its first character
TwinID == <<"a", "b", "3">>
NearID == <<"a", "c", "4">>
UUIDs == {WID, OtherID, TwinID, NearID}
\* the zero uuid.UUID a handler holds before any register
NilID == <<>>
\* a nil net.Conn
NoConn == 0

\* uuid.Parse: succeeds on well-formed id strings only; the hex digits may
\* be in either case, and the id parsed is the same
UUIDParse(s) == ToLower(s)
ParseOK(s) == UUIDParse(s) \in UUIDs

ShortID(id) == SubSeq(id, 1, 2)

\* the wrapper's --title
Title == <<"T">>

(***************************************************************************)
(* Store and Session (session store source).  The store is the map         *)
(* Store.sessions: a function from the ids present to Session records.     *)
(* LastActivity and CreatedAt are wall-clock stamps that no reply exposes  *)
(* (CreatedAt only formatted into list_sessions); they are not modelled.   *)
(***************************************************************************)
NewStore == <<>>

NewSession(title, bufCap, collab, conn) ==
    [title |-> title, connected |-> TRUE, collab |-> collab,
     clientConn |-> conn, buffer |-> NewRingBuffer(bufCap),
     lastCommand |-> Empty]

Has(store, id) == id \in DOMAIN store

\* Store.Create with the id uuid.New() returned
StoreCreate(store, id, title, bufCap, collab, conn) ==
    [x \in DOMAIN store \cup {id} |->
        IF x = id THEN NewSession(title, bufCap, collab, conn) ELSE store[x]]

\* Store.CreateOrUpdate: the new store and the reconnected flag.  Every
\* register of the model asks for the same capacity, so the update of the
\* capacity of a kept session is the identity.
StoreCreateOrUpdate(store, id, title, bufCap, collab, conn) ==
    IF Has(store, id)
    THEN [store |-> [store EXCEPT ![id].title = title,
                                  ![id].collab = collab,
                                  ![id].clientConn = conn,
                                  ![id].connected = TRUE],
          reconnected |-> TRUE]
    ELSE [store |-> StoreCreate(store, id, title, bufCap, collab, conn),
          reconnected |-> FALSE]

\* the orders in which a range over the map can visit its keys
RECURSIVE Orders(_)
Orders(S) ==
    IF S = {} THEN {<<>>}
    ELSE UNION {{<<x>> \o rest : rest \in Orders(S \ {x})} : x \in S}

\* outcomes of a lookup
Found(id) == [ok |-> TRUE, id |-> id, err |-> "none"]
Failed(err) == [ok |-> FALSE, id |-> NilID, err |-> err]

\* Store.FindByPrefix, the test of one session; prefix is lowercased
\* already
PrefixMatches(id, prefix) ==
    \/ HasPrefix(ToLower(id), prefix)
    \/ HasPrefix(ToLower(ShortID(id)), prefix)

\* Store.FindByPrefix, the loop from the i-th key of the order on; match
\* is NilID for nil
RECURSIVE FindByPrefixLoop(_, _, _, _, _)
FindByPrefixLoop(store, order, prefix, i, match) ==
    IF i > Len(order)
    THEN IF match = NilID THEN Failed("NotFound") ELSE Found(match)
    ELSE IF PrefixMatches(order[i], prefix)
         THEN IF match # NilID THEN Failed("Ambiguous")
              ELSE FindByPrefixLoop(store, order, prefix, i + 1, order[i])
         ELSE FindByPrefixLoop(store, order, prefix, i + 1, match)

\* FindByPrefix returning the first session that matches
FindByPrefix_FirstMatch(store, prefix) ==
    LET m == {id \in DOMAIN store : PrefixMatches(id, ToLower(prefix))}
    IN IF m = {} THEN {Failed("NotFound")} ELSE {Found(id) : id \in m}

\* Store.FindByPrefix: the outcomes over the orders of the map iteration
FindByPrefix(store, prefix) ==
    {FindByPrefixLoop(store, order, ToLower(prefix), 1, NilID) :
        order \in Orders(DOMAIN store)}

\* Store.FindByTitle, the loop from the i-th key of the order on; lower is
\* the lowercased title
RECURSIVE FindByTitleLoop(_, _, _, _)
FindByTitleLoop(store, order, lower, i) ==
    IF i > Len(order) THEN Failed("NotFound")
    ELSE IF ToLower(store[order[i]].title) = lower THEN Found(order[i])
         ELSE FindByTitleLoop(store, order, lower, i + 1)

\* FindByTitle comparing the titles as they are
FindByTitle_CaseSensitive(store, title) ==
    LET m == {id \in DOMAIN store : store[id].title = title}
    IN IF m = {} THEN {Failed("NotFound")} ELSE {Found(id) : id \in m}

\* Store.FindByTitle: the outcomes over the orders of the map iteration
FindByTitle(store, title) ==
    {FindByTitleLoop(store, order, ToLower(title), 1) :
        order \in Orders(DOMAIN store)}

\* Store.Get
Get(store, id) == IF Has(store, id) THEN Found(id) ELSE Failed("NotFound")

\* Store.Resolve: the set of outcomes the call can have
Resolve(store, identifier) ==
    IF ParseOK(identifier)
    THEN {Get(store, UUIDParse(identifier))}
    ELSE LET byPrefix == FindByPrefix(store, identifier)
             byTitle == FindByTitle(store, identifier)
         IN {r \in byPrefix : r.ok}
            \cup (IF \E r \in byPrefix : ~r.ok
                  THEN {r \in byTitle : r.ok}
                       \cup (IF \E r \in byTitle : ~r.ok
                             THEN {Failed("NotFound")} ELSE {})
                  ELSE {})

\* SendInput testing the connection before the collab flag
SendInputCheck_ConnFirst(sess) ==
    IF ~sess.connected \/ sess.clientConn = NoConn THEN "NotConnected"
    ELSE IF ~sess.collab THEN "NotCollab"
    ELSE "send"

\* Session.SendInput: "NotCollab", "NotConnected", or "send" (the record is
\* encoded onto clientConn; the write itself may still fail)
SendInputCheck(sess) ==
    IF ~sess.collab THEN "NotCollab"
    ELSE IF ~sess.connected \/ sess.clientConn = NoConn THEN "NotConnected"
    ELSE "send"

(***************************************************************************)
(* State.                                                                  *)
(***************************************************************************)
VARIABLES
    \* daemon process
    daemonUp,      \* the daemon process runs and listens
    sessions,      \* Store.sessions
    crashes,       \* times the daemon went away
    \* connections of the daemon socket, by dial order
    nextConn,      \* the next connection to be dialed
    owner,         \* who dialed it: "none" (not dialed), "wrapper", "control"
    c2d,           \* records written by the client, not yet read by handleConn
    d2c,           \* records written by the daemon, not yet read by the client
    cliClosed,     \* the client closed its end
    srvClosed,     \* the daemon closed its end (handleConn returned, or died)
    hpc,           \* handleConn: "none", "run", "bound" (register: session
                   \* bound, ack not yet written), "done"
    hsid,          \* handleConn's sessionID
    hrec,          \* handleConn's reconnected, between binding and ack
    \* wrapper (Client)
    collab,        \* Client.Collab
    phase,         \* Run: "init", "loop", "ptmx", "up", "exited", "panicked"
    cpc,           \* connect(): "idle", "reg", "ack", "snap", "replay"
    conn,          \* Client.conn / enc / scanner (set and dropped together)
    connected,     \* Client.connected
    localBuf,      \* Client.localBuf
    lastCommand,   \* Client.lastCommand (Empty for nil)
    readers,       \* handleIncomingMessages tasks, by the connection whose
                   \* scanner each captured
    replayLeft,    \* replayBuffer: lines of the snapshot not yet sent
    ptyIn,         \* texts written to the PTY master, by source connection
    produced,      \* lines the PTY copier handed to sendOutput, in order
    quiet,         \* no line was handed to sendOutput since the last register
    ncmd,          \* commands detected so far
    \* tool host (control client)
    ctlConn,       \* its connection
    nreq,          \* records sent so far by the tool host / by peers
    acked,         \* write_session texts answered with a success ack, by the
                   \* wrapper connection the input record was written to
    \* one RingBuffer and its callers
    rb,            \* the RingBuffer
    hist,          \* lines appended since NewRingBuffer or the last Clear
    nops,          \* NewRingBuffer, Append and Clear calls so far
    res,           \* the call just made, with its arguments and result
    page,          \* a caller paging through the buffer with ReadRange
    mu,            \* RingBuffer.mu: the writer holding it, readers holding it
    wop,           \* the writing task: its call and its place in it
    rd,            \* the reading tasks: call, place, what each has read
    commits,       \* buffer states between complete writes, since each
                   \* reading task's call began
    \* streamshd processes started on one socket path
    sock,          \* the socket file: "none", or the process whose listener
                   \* bound it (a stale file when that listener is gone)
    starter,       \* each process's place in main and Daemon.Listen
    nstart,        \* processes started so far
    \* what replayBuffer did in the wrapper's latest connect()
    snap,          \* the lines AllLines returned
    sent,          \* the replay records written to the connection
    \* the wrapper's tasks writing records to its socket
    cmu,           \* Client.mu: the task holding it, or "none"
    wt,            \* each task's place in sendMsg / disconnect
    wire,          \* the pieces of records written to each socket, in order
    \* the wrapper's copiers
    cin,           \* copyStdinToPTY: bytes read, command buffer, commands
    cout,          \* copyPTYToStdout: bytes read, line buffer, lines
    \* a tool host's DaemonClient
    rt             \* roundTrip: the call under way, calls and sends so far

dvars == <<daemonUp, sessions, crashes>>
cvars == <<nextConn, owner, c2d, d2c, cliClosed, srvClosed, hpc, hsid, hrec>>
wvars == <<collab, phase, cpc, conn, connected, localBuf, lastCommand,
           readers, replayLeft, ptyIn, produced, quiet, ncmd>>
tvars == <<ctlConn, nreq, acked>>
rvars == <<rb, hist, nops, res, page, mu, wop, rd, commits>>
lvars == <<sock, starter, nstart>>
hvars == <<snap, sent>>
xvars == <<cmu, wt, wire, cin, cout, rt>>
vars == <<dvars, cvars, wvars, tvars, rvars, lvars, hvars, xvars>>

ConnIds == 1..MaxConn

\* streamshd processes that may be started on the same socket path.
Starters == {"d1", "d2"}

\* The wrapper's tasks that write records: the PTY copier (output), the
\* stdin copier (command), the reconnection task (register, replay) and
\* Run at shutdown (disconnect).
WireTasks == {"pty", "stdin", "reconn", "run"}
\* a task outside sendMsg and disconnect; n counts the records it has begun
IdleTask == [pc |-> "idle", n |-> 0, k |-> 0]

\* copyStdinToPTY before its first read: var cmdBuf bytes.Buffer
NewStdinCopier ==
    [cmdBuf |-> <<>>, flushed |-> <<>>, cmds |-> <<>>, in |-> <<>>,
     fwd |-> <<>>]
\* copyPTYToStdout before its first read: var lineBuf bytes.Buffer
NewPTYCopier ==
    [lineBuf |-> <<>>, lines |-> <<>>, in |-> <<>>, out |-> <<>>,
     eof |-> FALSE]
\* a DaemonClient between calls
NewDaemonClient ==
    [pc |-> "idle", req |-> [type |-> "none"], calls |-> 0, sends |-> 0,
     tries |-> 0, out |-> "none"]

\* Tasks that read the RingBuffer while another task writes it.
Readers == {"r1", "r2"}
\* a reading task between calls
IdleReader == [pc |-> "idle", op |-> "none"]

\* Raw lines the shell prints: plain, coloured, and another plain one.
RawLines == {<<"x">>, <<"ESC", "y", "ESC">>}
\* Commands typed at the prompt.
Commands == {<<"l", "s">>}
\* Texts a tool host asks to type: a command with its line feed, and the
\* two characters backslash n.
Texts == {<<"l", "\n">>, <<"\\", "n">>}
\* Session identifiers a tool host names: full id, short id, unknown.
Idents == {WID, ShortID(WID), <<"z">>}

(***************************************************************************)
(* Records on the wire (Envelope with its payload).                        *)
(***************************************************************************)
\* a register record that asks for a buffer of its own size
MsgRegisterSize(title, col, sid, size) ==
    [type |-> "register", title |-> title, collab |-> col, sessionID |-> sid,
     bufferSize |-> size]
MsgRegister(title, col, sid) == MsgRegisterSize(title, col, sid, 0)
MsgOutput(lines) == [type |-> "output", lines |-> lines]
MsgReplay(lines, cmd) ==
    [type |-> "replay", lines |-> lines, lastCommand |-> cmd]
MsgCommand(cmd) == [type |-> "command", command |-> cmd]
MsgDisconnect == [type |-> "disconnect"]
MsgListSessions == [type |-> "list_sessions"]
\* QuerySessionPayload; a field left out of the JSON decodes as its zero
MsgQuery(ident, search, maxResults, lastN, cursor, count) ==
    [type |-> "query_session", session |-> ident, search |-> search,
     maxResults |-> maxResults, lastN |-> lastN, cursor |-> cursor,
     count |-> count]
MsgQuerySession(ident, n) == MsgQuery(ident, Empty, 0, n, 0, 0)
MsgWriteSession(ident, text) ==
    [type |-> "write_session", session |-> ident, text |-> JSONEscape(text)]
\* an input record whose text is put on the wire without escaping
MsgInput_Raw(text) == [type |-> "input", text |-> text]
MsgInput(text) == [type |-> "input", text |-> JSONEscape(text)]
MsgError(message) == [type |-> "error", message |-> message]
RegisterAck(id) ==
    [type |-> "ack", re |-> "register", sessionID |-> id,
     shortID |-> ShortID(id)]
WriteSessionResponse(id, text) ==
    [type |-> "ack", re |-> "write_session", success |-> TRUE,
     sessionID |-> ShortID(id), bytesSent |-> Len(text)]
QuerySessionResponse(store, id, lines) ==
    [type |-> "ack", re |-> "query_session", sessionID |-> ShortID(id),
     title |-> store[id].title, totalLines |-> RBLen(store[id].buffer),
     lines |-> lines, nextCursor |-> 0, hasMore |-> FALSE]

\* fmt.Sprintf("[%d] %s", r.Seq, r.Line)
FormatResult(r) == <<"[", ToString(r.seq), "]", " ">> \o r.line

\* the switch of case MsgQuerySession with tail tried before search
QueryReply_TailFirst(store, id, p) ==
    LET buf == store[id].buffer
        resp == QuerySessionResponse(store, id, <<>>)
    IN IF p.lastN > 0
       THEN [resp EXCEPT !.lines = RBLastN(buf, p.lastN)]
       ELSE IF p.search # Empty
       THEN LET maxResults == IF p.maxResults <= 0 THEN DefaultMaxResults
                              ELSE p.maxResults
                results == RBSearch(buf, p.search, maxResults)
            IN [resp EXCEPT !.lines = [i \in DOMAIN results |->
                                         FormatResult(results[i])]]
       ELSE LET count == IF p.count <= 0 THEN DefaultCount ELSE p.count
                r == RBReadRange(buf, p.cursor, count)
            IN [resp EXCEPT !.lines = r.lines, !.nextCursor = r.next,
                            !.hasMore = r.hasMore]

\* case MsgQuerySession, from resp := QuerySessionResponse{...} to the end
\* of the switch
QueryReply(store, id, p) ==
    LET buf == store[id].buffer
        resp == QuerySessionResponse(store, id, <<>>)
    IN IF p.search # Empty
       THEN LET maxResults == IF p.maxResults <= 0 THEN DefaultMaxResults
                              ELSE p.maxResults
                results == RBSearch(buf, p.search, maxResults)
            IN [resp EXCEPT !.lines = [i \in DOMAIN results |->
                                         FormatResult(results[i])]]
       ELSE IF p.lastN > 0
       THEN [resp EXCEPT !.lines = RBLastN(buf, p.lastN)]
       ELSE LET count == IF p.count <= 0 THEN DefaultCount ELSE p.count
                r == RBReadRange(buf, p.cursor, count)
            IN [resp EXCEPT !.lines = r.lines, !.nextCursor = r.next,
                            !.hasMore = r.hasMore]
SessionInfo(store, id) ==
    [id |-> ShortID(id), title |-> store[id].title,
     lastCommand |-> store[id].lastCommand,
     lineCount |-> RBLen(store[id].buffer),
     connected |-> store[id].connected, collab |-> store[id].collab]
ListSessionsResponse(store) ==
    [type |-> "ack", re |-> "list_sessions",
     sessions |-> {SessionInfo(store, id) : id \in DOMAIN store}]

ControlTypes == {"list_sessions", "query_session", "write_session"}

(***************************************************************************)
(* Init: nothing runs yet but the daemon; the wrapper is at the top of     *)
(* Run, about to make its initial connect; --collab is either way.         *)
(***************************************************************************)
Init ==
    /\ daemonUp = TRUE
    /\ sessions = NewStore
    /\ crashes = 0
    /\ nextConn = 1
    /\ owner = [c \in ConnIds |-> "none"]
    /\ c2d = [c \in ConnIds |-> <<>>]
    /\ d2c = [c \in ConnIds |-> <<>>]
    /\ cliClosed = [c \in ConnIds |-> FALSE]
    /\ srvClosed = [c \in ConnIds |-> FALSE]
    /\ hpc = [c \in ConnIds |-> "none"]
    /\ hsid = [c \in ConnIds |-> NilID]
    /\ hrec = [c \in ConnIds |-> FALSE]
    /\ collab \in BOOLEAN
    /\ phase = "init"
    /\ cpc = "idle"
    /\ conn = NoConn
    /\ connected = FALSE
    /\ localBuf = NewRingBuffer(LocalBufCap)
    /\ lastCommand = Empty
    /\ readers = [c \in ConnIds |-> 0]
    /\ replayLeft = <<>>
    /\ ptyIn = [c \in ConnIds |-> <<>>]
    /\ produced = <<>>
    /\ quiet = TRUE
    /\ ncmd = 0
    /\ ctlConn = NoConn
    /\ nreq = 0
    /\ acked = [c \in ConnIds |-> <<>>]
    /\ rb = NewRingBuffer(1)
    /\ hist = <<>>
    /\ nops = 0
    /\ res = [op |-> "none"]
    /\ page = [pc |-> "idle", c |-> 0, cursor |-> 0, seen |-> <<>>,
               calls |-> 0, ver |-> 0]
    /\ mu = [w |-> FALSE, r |-> 0]
    /\ wop = [pc |-> "idle", line |-> Empty]
    /\ rd = [t \in Readers |-> IdleReader]
    /\ commits = [t \in Readers |-> {}]
    /\ sock = "none"
    /\ starter = [s \in Starters |-> "off"]
    /\ nstart = 0
    /\ snap = <<>>
    /\ sent = <<>>
    /\ cmu = "none"
    /\ wt = [t \in WireTasks |-> IdleTask]
    /\ wire = [c \in ConnIds |-> <<>>]
    /\ cin = NewStdinCopier
    /\ cout = NewPTYCopier
    /\ rt = NewDaemonClient

(***************************************************************************)
(* Daemon: handleConn, one action per case of its switch.  The handler of  *)
(* connection c reads the records of c2d[c] in order; replies go to d2c.   *)
(***************************************************************************)
\* enc.Encode on the handler's own connection; the error of a write to a
\* connection the peer has closed is ignored and the record is lost
Reply(q, c, rec) ==
    IF cliClosed[c] THEN q ELSE [q EXCEPT ![c] = Append(q[c], rec)]

Reads(c, type) ==
    /\ daemonUp
    /\ hpc[c] = "run"
    /\ c2d[c] # <<>>
    /\ Head(c2d[c]).type = type

Consume(c) == c2d' = [c2d EXCEPT ![c] = Tail(c2d[c])]

\* case MsgRegister, up to sessionID = sess.ID: the session is created or
\* found and bound to the connection.
HandleRegister(c) ==
    /\ Reads(c, "register")
    /\ Consume(c)
    /\ LET p == Head(c2d[c])
           bufSize == IF p.bufferSize > 0 THEN p.bufferSize
                      ELSE DaemonBufferSize
           clientConn == IF p.collab THEN c ELSE NoConn
       IN IF p.sessionID # Empty
          THEN IF ~ParseOK(p.sessionID)
               THEN /\ d2c' = Reply(d2c, c, MsgError("invalid session ID"))
                    /\ UNCHANGED <<rvars, sessions, hpc, hsid, hrec>>
               ELSE LET parsed == UUIDParse(p.sessionID)
                        r == StoreCreateOrUpdate(sessions, parsed,
                                 p.title, bufSize, p.collab, clientConn)
                    IN /\ sessions' = r.store
                       /\ hsid' = [hsid EXCEPT ![c] = parsed]
                       /\ hrec' = [hrec EXCEPT ![c] = r.reconnected]
                       /\ hpc' = [hpc EXCEPT ![c] = "bound"]
                       /\ UNCHANGED d2c
          ELSE \E id \in UUIDs \ DOMAIN sessions :
                    /\ sessions' = StoreCreate(sessions, id, p.title, bufSize,
                                               p.collab, clientConn)
                    /\ hsid' = [hsid EXCEPT ![c] = id]
                    /\ hrec' = [hrec EXCEPT ![c] = FALSE]
                    /\ hpc' = [hpc EXCEPT ![c] = "bound"]
                    /\ UNCHANGED d2c
    /\ UNCHANGED <<xvars, lvars, hvars, rvars,
                   daemonUp, crashes, nextConn, owner, cliClosed, srvClosed,
                   wvars, tvars>>

\* HandleRegisterAck with the clearing of a resumed session's buffer left out
HandleRegisterAck_NoClear(c) ==
    /\ daemonUp
    /\ hpc[c] = "bound"
    /\ d2c' = Reply(d2c, c, RegisterAck(hsid[c]))
    /\ hpc' = [hpc EXCEPT ![c] = "run"]
    /\ hrec' = [hrec EXCEPT ![c] = FALSE]
    /\ UNCHANGED <<xvars, lvars, hvars, rvars,
                   daemonUp, sessions, crashes, nextConn, owner, c2d,
                   cliClosed, srvClosed, hsid, wvars, tvars>>

\* case MsgRegister, the rest: clear the buffer of a resumed session, then
\* write the ack.
HandleRegisterAck(c) ==
    /\ daemonUp
    /\ hpc[c] = "bound"
    /\ sessions' = IF hrec[c]
                   THEN [sessions EXCEPT ![hsid[c]].buffer = RBClear(@)]
                   ELSE sessions
    /\ d2c' = Reply(d2c, c, RegisterAck(hsid[c]))
    /\ hpc' = [hpc EXCEPT ![c] = "run"]
    /\ hrec' = [hrec EXCEPT ![c] = FALSE]
    /\ UNCHANGED <<xvars, lvars, hvars, rvars,
                   daemonUp, crashes, nextConn, owner, c2d, cliClosed,
                   srvClosed, hsid, wvars, tvars>>

StripEach(ls) == [i \in DOMAIN ls |-> Strip(ls[i])]

\* case MsgOutput
HandleOutput(c) ==
    /\ Reads(c, "output")
    /\ Consume(c)
    /\ sessions' =
          IF Has(sessions, hsid[c])
          THEN [sessions EXCEPT ![hsid[c]].buffer =
                    RBAppendAll(@, StripEach(Head(c2d[c]).lines))]
          ELSE sessions
    /\ UNCHANGED <<xvars, lvars, hvars, rvars,
                   daemonUp, crashes, nextConn, owner, d2c, cliClosed,
                   srvClosed, hpc, hsid, hrec, wvars, tvars>>

\* case MsgReplay
HandleReplay(c) ==
    /\ Reads(c, "replay")
    /\ Consume(c)
    /\ LET p == Head(c2d[c])
       IN sessions' =
          IF Has(sessions, hsid[c])
          THEN [sessions EXCEPT
                    ![hsid[c]].buffer = RBAppendAll(@, p.lines),
                    ![hsid[c]].lastCommand =
                        IF p.lastCommand # Empty THEN p.lastCommand ELSE @]
          ELSE sessions
    /\ UNCHANGED <<xvars, lvars, hvars, rvars,
                   daemonUp, crashes, nextConn, owner, d2c, cliClosed,
                   srvClosed, hpc, hsid, hrec, wvars, tvars>>

\* case MsgCommand
HandleCommand(c) ==
    /\ Reads(c, "command")
    /\ Consume(c)
    /\ sessions' =
          IF Has(sessions, hsid[c])
          THEN [sessions EXCEPT ![hsid[c]].lastCommand = Head(c2d[c]).command]
          ELSE sessions
    /\ UNCHANGED <<xvars, lvars, hvars, rvars,
                   daemonUp, crashes, nextConn, owner, d2c, cliClosed,
                   srvClosed, hpc, hsid, hrec, wvars, tvars>>

\* Teardown that takes the session out of the store
Teardown_Remove(store, id) ==
    [i \in DOMAIN store \ {id} |-> store[i]]

\* sess.Connected = false; sess.ClearConn() on the session the handler is
\* bound to, if it is in the store
Teardown(store, id) ==
    IF Has(store, id)
    THEN [store EXCEPT ![id].connected = FALSE, ![id].clientConn = NoConn]
    ELSE store

\* handleConn returns: the deferred conn.Close()
Return(c) ==
    /\ hpc' = [hpc EXCEPT ![c] = "done"]
    /\ srvClosed' = [srvClosed EXCEPT ![c] = TRUE]
    /\ c2d' = [c2d EXCEPT ![c] = <<>>]

\* case MsgDisconnect
HandleDisconnect(c) ==
    /\ Reads(c, "disconnect")
    /\ sessions' = Teardown(sessions, hsid[c])
    /\ Return(c)
    /\ UNCHANGED <<xvars, lvars, hvars, rvars,
                   daemonUp, crashes, nextConn, owner, d2c, cliClosed,
                   hsid, hrec, wvars, tvars>>

\* scanner.Scan() returns false: the connection closed without a
\* disconnect message
HandleEOF(c) ==
    /\ daemonUp
    /\ hpc[c] = "run"
    /\ c2d[c] = <<>>
    /\ cliClosed[c]
    /\ sessions' = Teardown(sessions, hsid[c])
    /\ Return(c)
    /\ UNCHANGED <<xvars, lvars, hvars, rvars,
                   daemonUp, crashes, nextConn, owner, d2c, cliClosed,
                   hsid, hrec, wvars, tvars>>

\* list_sessions consumed without a reply
HandleListSessions_NoReply(c) ==
    /\ Reads(c, "list_sessions")
    /\ Consume(c)
    /\ UNCHANGED <<xvars, lvars, hvars, rvars,
                   dvars, nextConn, owner, d2c, cliClosed, srvClosed, hpc,
                   hsid, hrec, wvars, tvars>>

\* case MsgListSessions
HandleListSessions(c) ==
    /\ Reads(c, "list_sessions")
    /\ Consume(c)
    /\ d2c' = Reply(d2c, c, ListSessionsResponse(sessions))
    /\ UNCHANGED <<xvars, lvars, hvars, rvars,
                   dvars, nextConn, owner, cliClosed, srvClosed, hpc, hsid,
                   hrec, wvars, tvars>>

\* case MsgQuerySession
HandleQuerySession(c) ==
    /\ Reads(c, "query_session")
    /\ Consume(c)
    /\ LET p == Head(c2d[c])
       IN \E r \in Resolve(sessions, p.session) :
            d2c' = Reply(d2c, c,
                     IF ~r.ok THEN MsgError(r.err)
                     ELSE QueryReply(sessions, r.id, p))
    /\ UNCHANGED <<xvars, lvars, hvars, rvars,
                   dvars, nextConn, owner, cliClosed, srvClosed, hpc, hsid,
                   hrec, wvars, tvars>>

\* json.NewEncoder(s.clientConn).Encode succeeds while both ends are open
Writable(cc) == ~cliClosed[cc] /\ ~srvClosed[cc]

\* case MsgWriteSession
HandleWriteSession(c) ==
    /\ Reads(c, "write_session")
    /\ Consume(c)
    /\ LET p == Head(c2d[c])
           text == JSONUnescape(p.text)
       IN \E r \in Resolve(sessions, p.session) :
            IF ~r.ok
            THEN /\ d2c' = Reply(d2c, c, MsgError(r.err))
                 /\ UNCHANGED acked
            ELSE LET sess == sessions[r.id]
                     chk == SendInputCheck(sess)
                     cc == sess.clientConn
                 IN IF chk # "send"
                    THEN /\ d2c' = Reply(d2c, c, MsgError(chk))
                         /\ UNCHANGED acked
                    ELSE IF ~Writable(cc)
                    THEN /\ d2c' = Reply(d2c, c, MsgError("WriteFailed"))
                         /\ UNCHANGED acked
                    ELSE /\ d2c' = Reply([d2c EXCEPT ![cc] =
                                            Append(d2c[cc], MsgInput(text))],
                                         c, WriteSessionResponse(r.id, text))
                         /\ acked' = [acked EXCEPT ![cc] = Append(@, text)]
    /\ UNCHANGED <<xvars, lvars, hvars, rvars,
                   dvars, nextConn, owner, cliClosed, srvClosed, hpc, hsid,
                   hrec, wvars, ctlConn, nreq>>

\* The daemon process goes away: the store is lost with it, every
\* connection is closed at the daemon's end, unread records are lost.
\* Records already written to a client stay readable there.
DaemonCrash ==
    /\ daemonUp
    /\ crashes < MaxCrash
    /\ daemonUp' = FALSE
    /\ crashes' = crashes + 1
    /\ sessions' = NewStore
    /\ hpc' = [c \in ConnIds |-> IF hpc[c] = "none" THEN "none" ELSE "done"]
    /\ srvClosed' = [c \in ConnIds |-> srvClosed[c] \/ hpc[c] # "none"]
    /\ c2d' = [c \in ConnIds |-> <<>>]
    /\ hrec' = [c \in ConnIds |-> FALSE]
    /\ UNCHANGED <<xvars, lvars, hvars, rvars,
                   nextConn, owner, d2c, cliClosed, hsid, wvars, tvars>>

\* streamshd starts again: Listen with a new, empty Store.
DaemonStart ==
    /\ ~daemonUp
    /\ daemonUp' = TRUE
    /\ UNCHANGED <<xvars, lvars, hvars, rvars, sessions, crashes, cvars, wvars,
                   tvars>>

(***************************************************************************)
(* Wrapper (Client).                                                       *)
(***************************************************************************)
\* const chunkSize in replayBuffer (500 in the code, scaled down)
chunkSize == 2

Running == phase \notin {"exited", "panicked"}

\* net.Dial succeeds: connection nextConn exists and the daemon's accept
\* loop starts its handleConn
Dial(who) ==
    /\ daemonUp
    /\ nextConn <= MaxConn
    /\ owner' = [owner EXCEPT ![nextConn] = who]
    /\ hpc' = [hpc EXCEPT ![nextConn] = "run"]
    /\ nextConn' = nextConn + 1

\* conn.Close() at the client's end: nothing more is read from it
CloseAt(closed, c) == IF c = NoConn THEN closed ELSE [closed EXCEPT ![c] = TRUE]
Drop(q, c) == IF c = NoConn THEN q ELSE [q EXCEPT ![c] = <<>>]

\* Client.sendMsg: under the lock, nothing with a nil conn; otherwise encode
\* the record, and on a write error (the daemon's end is closed) mark the
\* wrapper disconnected, close and drop the connection.
SendMsg(rec) ==
    IF conn = NoConn
    THEN UNCHANGED <<rvars, c2d, d2c, conn, connected, cliClosed>>
    ELSE IF srvClosed[conn]
         THEN /\ connected' = FALSE
              /\ cliClosed' = CloseAt(cliClosed, conn)
              /\ d2c' = Drop(d2c, conn)
              /\ conn' = NoConn
              /\ UNCHANGED c2d
         ELSE /\ c2d' = [c2d EXCEPT ![conn] = Append(c2d[conn], rec)]
              /\ UNCHANGED <<rvars, d2c, conn, connected, cliClosed>>

\* connect() returns to its caller: Run goes on to start the reconnection
\* loop; the loop respawns the input reader (go c.handleIncomingMessages)
\* when Collab and ptmx is set.  The reader captures the scanner that is
\* current then; with a nil scanner it returns at once.
ConnectReturn(cur) ==
    /\ cpc' = "idle"
    /\ IF phase = "init"
       THEN phase' = "loop" /\ UNCHANGED readers
       ELSE /\ UNCHANGED phase
            /\ readers' = IF collab /\ phase \in {"ptmx", "up"} /\ cur # NoConn
                          THEN [readers EXCEPT ![cur] = @ + 1]
                          ELSE readers

\* Run: the initial connect(), net.Dial
WInitDial ==
    /\ phase = "init"
    /\ cpc = "idle"
    /\ IF daemonUp
       THEN /\ Dial("wrapper")
            /\ conn' = nextConn
            /\ cpc' = "reg"
            /\ UNCHANGED phase
       ELSE /\ phase' = "loop"
            /\ UNCHANGED <<rvars, owner, hpc, nextConn, conn, cpc>>
    /\ UNCHANGED <<xvars, lvars, hvars, rvars,
                   dvars, c2d, d2c, cliClosed, srvClosed, hsid, hrec,
                   collab, connected, localBuf, lastCommand, readers,
                   replayLeft, ptyIn, produced, quiet, ncmd, tvars>>

\* reconnectionLoop, one tick while not connected: close the old
\* connection if any, then connect(), net.Dial
WTick ==
    /\ phase \in {"loop", "ptmx", "up"}
    /\ cpc = "idle"
    /\ ~connected
    /\ cliClosed' = CloseAt(cliClosed, conn)
    /\ d2c' = Drop(d2c, conn)
    /\ IF daemonUp
       THEN /\ Dial("wrapper")
            /\ conn' = nextConn
            /\ cpc' = "reg"
       ELSE /\ conn' = NoConn
            /\ UNCHANGED <<rvars, owner, hpc, nextConn, cpc>>
    /\ UNCHANGED <<xvars, lvars, hvars, rvars, dvars, c2d, srvClosed, hsid,
                   hrec, collab, phase, connected, localBuf, lastCommand,
                   readers,
                   replayLeft, ptyIn, produced, quiet, ncmd, tvars>>

\* connect(): send the register record with the self-assigned id
WRegister ==
    /\ Running
    /\ cpc = "reg"
    /\ SendMsg(MsgRegister(Title, collab, WID))
    /\ cpc' = "ack"
    /\ quiet' = TRUE
    /\ UNCHANGED <<xvars, lvars, hvars, rvars,
                   dvars, nextConn, owner, srvClosed, hpc, hsid, hrec,
                   collab, phase, localBuf, lastCommand, readers,
                   replayLeft, ptyIn, produced, ncmd, tvars>>

\* connect(): c.scanner.Scan() reads one record, whatever it is, or the end
\* of the stream; then connected.Store(true).  With c.scanner nil (the
\* register could not be sent) the call dereferences nil and the process
\* dies, its sockets closing with it.
WReadAck ==
    /\ Running
    /\ cpc = "ack"
    /\ IF conn = NoConn
       THEN /\ phase' = "panicked"
            /\ cliClosed' = [c \in ConnIds |->
                                cliClosed[c] \/ owner[c] = "wrapper"]
            /\ readers' = [c \in ConnIds |-> 0]
            /\ UNCHANGED <<rvars, d2c, connected, cpc>>
       ELSE /\ (d2c[conn] # <<>> \/ srvClosed[conn])
            /\ d2c' = IF d2c[conn] # <<>>
                      THEN [d2c EXCEPT ![conn] = Tail(@)] ELSE d2c
            /\ connected' = TRUE
            /\ cpc' = "snap"
            /\ UNCHANGED <<rvars, phase, cliClosed, readers>>
    /\ UNCHANGED <<xvars, lvars, hvars, rvars,
                   dvars, nextConn, owner, c2d, srvClosed, hpc, hsid, hrec,
                   collab, conn, localBuf, lastCommand, replayLeft, ptyIn,
                   produced, quiet, ncmd, tvars>>

\* replayBuffer: lines := c.localBuf.AllLines(); nothing to send when empty
WReplaySnap ==
    /\ Running
    /\ cpc = "snap"
    /\ LET lines == RBAllLines(localBuf)
       IN /\ snap' = lines
          /\ sent' = <<>>
          /\ IF lines = <<>>
             THEN ConnectReturn(conn) /\ UNCHANGED replayLeft
             ELSE /\ replayLeft' = lines
                  /\ cpc' = "replay"
                  /\ UNCHANGED <<rvars, phase, readers>>
    /\ UNCHANGED <<xvars, lvars, rvars,
                   dvars, cvars, collab, conn, connected, localBuf,
                   lastCommand, ptyIn, produced, quiet, ncmd, tvars>>

\* replayBuffer, one pass of the chunk loop over the lines left: the lines
\* of the chunk
ReplayChunk(left) ==
    SubSeq(left, 1, IF Len(left) > chunkSize THEN chunkSize ELSE Len(left))

\* the replay record with the command put into every chunk
ReplayRecord_CmdAlways(left, cmd) == MsgReplay(ReplayChunk(left), cmd)

\* the replay record of the pass; cmd is what getLastCommand returns
ReplayRecord(left, cmd) ==
    LET chunk == ReplayChunk(left)
        isLast == Len(chunk) = Len(left)
    IN MsgReplay(chunk, IF isLast THEN cmd ELSE Empty)

\* replayBuffer: one pass of the chunk loop
WReplaySend ==
    /\ Running
    /\ cpc = "replay"
    /\ LET rec == ReplayRecord(replayLeft, lastCommand)
           rest == SubSeq(replayLeft, Len(rec.lines) + 1, Len(replayLeft))
           isLast == rest = <<>>
       IN /\ SendMsg(rec)
          /\ sent' = IF conn # NoConn /\ ~srvClosed[conn]
                     THEN Append(sent, rec) ELSE sent
          /\ replayLeft' = rest
          /\ IF isLast
             THEN ConnectReturn(conn')
             ELSE UNCHANGED <<rvars, cpc, phase, readers>>
    /\ UNCHANGED <<xvars, lvars, snap, rvars,
                   dvars, nextConn, owner, srvClosed, hpc, hsid, hrec,
                   collab, localBuf, lastCommand, ptyIn, produced, quiet,
                   ncmd, tvars>>

\* Run: pty.Start, c.ptmx = ptmx
WSetPtmx ==
    /\ phase = "loop"
    /\ phase' = "ptmx"
    /\ UNCHANGED <<xvars, lvars, hvars, rvars,
                   dvars, cvars, collab, cpc, conn, connected, localBuf,
                   lastCommand, readers, replayLeft, ptyIn, produced, quiet,
                   ncmd, tvars>>

\* Run: if c.Collab && c.connected.Load() { go c.handleIncomingMessages },
\* then the copiers run
WRunReaders ==
    /\ phase = "ptmx"
    /\ phase' = "up"
    /\ readers' = IF collab /\ connected /\ conn # NoConn
                  THEN [readers EXCEPT ![conn] = @ + 1]
                  ELSE readers
    /\ UNCHANGED <<xvars, lvars, hvars, rvars,
                   dvars, cvars, collab, cpc, conn, connected, localBuf,
                   lastCommand, replayLeft, ptyIn, produced, quiet, ncmd,
                   tvars>>

\* copyPTYToStdout hands one line to sendOutput: append its stripped form
\* to the local mirror, then forward the line if connected
WOutput(line) ==
    /\ phase = "up"
    /\ Len(produced) < MaxOut
    /\ localBuf' = RBAppend(localBuf, Strip(line))
    /\ produced' = Append(produced, line)
    /\ quiet' = FALSE
    /\ IF connected
       THEN SendMsg(MsgOutput(<<line>>))
       ELSE UNCHANGED <<rvars, c2d, d2c, conn, connected, cliClosed>>
    /\ UNCHANGED <<xvars, lvars, hvars, rvars,
                   dvars, nextConn, owner, srvClosed, hpc, hsid, hrec,
                   collab, phase, cpc, lastCommand, readers, replayLeft,
                   ptyIn, ncmd, tvars>>

\* copyStdinToPTY detects a non-empty command: sendCommand
WCommand(cmd) ==
    /\ phase = "up"
    /\ ncmd < MaxCmd
    /\ ncmd' = ncmd + 1
    /\ lastCommand' = cmd
    /\ IF connected
       THEN SendMsg(MsgCommand(cmd))
       ELSE UNCHANGED <<rvars, c2d, d2c, conn, connected, cliClosed>>
    /\ UNCHANGED <<xvars, lvars, hvars, rvars,
                   dvars, nextConn, owner, srvClosed, hpc, hsid, hrec,
                   collab, phase, cpc, localBuf, readers, replayLeft,
                   ptyIn, produced, quiet, tvars>>

\* handleIncomingMessages on the scanner of connection c: one Scan.  An
\* input record's text is written to the PTY master; when the scanner ends
\* (end of stream, or the connection was closed here) the task stores
\* connected = false and ends.
WReader(c) ==
    /\ Running
    /\ readers[c] > 0
    /\ IF ~cliClosed[c] /\ d2c[c] # <<>>
       THEN LET m == Head(d2c[c])
                text == IF m.type = "input" THEN JSONUnescape(m.text)
                        ELSE Empty
            IN /\ d2c' = [d2c EXCEPT ![c] = Tail(@)]
               /\ ptyIn' = IF text # Empty
                           THEN [ptyIn EXCEPT ![c] = Append(@, text)]
                           ELSE ptyIn
               /\ UNCHANGED <<rvars, connected, readers>>
       ELSE /\ (cliClosed[c] \/ srvClosed[c])
            /\ connected' = FALSE
            /\ readers' = [readers EXCEPT ![c] = @ - 1]
            /\ UNCHANGED <<rvars, d2c, ptyIn>>
    /\ UNCHANGED <<xvars, lvars, hvars, rvars,
                   dvars, nextConn, owner, c2d, cliClosed, srvClosed, hpc,
                   hsid, hrec, collab, phase, cpc, conn, localBuf,
                   lastCommand, replayLeft, produced, quiet, ncmd, tvars>>

\* Run returns (the shell exited): close(stopReconn), disconnect() - a
\* best-effort disconnect record if connected - and the process ends.
WShutdown ==
    /\ phase = "up"
    /\ phase' = "exited"
    /\ c2d' = IF connected /\ conn # NoConn /\ ~srvClosed[conn]
              THEN [c2d EXCEPT ![conn] = Append(@, MsgDisconnect)]
              ELSE c2d
    /\ connected' = FALSE
    /\ conn' = NoConn
    /\ cliClosed' = [c \in ConnIds |-> cliClosed[c] \/ owner[c] = "wrapper"]
    /\ d2c' = [c \in ConnIds |-> IF owner[c] = "wrapper" THEN <<>> ELSE d2c[c]]
    /\ readers' = [c \in ConnIds |-> 0]
    /\ cpc' = "idle"
    /\ replayLeft' = <<>>
    /\ UNCHANGED <<xvars, lvars, hvars, rvars,
                   dvars, nextConn, owner, srvClosed, hpc, hsid, hrec,
                   collab, localBuf, lastCommand, ptyIn, produced, quiet,
                   ncmd, tvars>>

(***************************************************************************)
(* Tool host: a control connection sending requests and reading replies.   *)
(***************************************************************************)
CtlDial ==
    /\ IF ctlConn = NoConn THEN TRUE ELSE srvClosed[ctlConn]
    /\ Cardinality({c \in ConnIds : owner[c] = "control"}) < MaxCtlConn
    /\ Dial("control")
    /\ ctlConn' = nextConn
    /\ cliClosed' = CloseAt(cliClosed, ctlConn)
    /\ d2c' = Drop(d2c, ctlConn)
    /\ UNCHANGED <<xvars, lvars, hvars, rvars,
                   dvars, c2d, srvClosed, hsid, hrec, wvars, nreq, acked>>

CtlSend(req) ==
    /\ ctlConn # NoConn
    /\ ~srvClosed[ctlConn]
    /\ nreq < MaxReq
    /\ nreq' = nreq + 1
    /\ c2d' = [c2d EXCEPT ![ctlConn] = Append(@, req)]
    /\ UNCHANGED <<xvars, lvars, hvars, rvars,
                   dvars, nextConn, owner, d2c, cliClosed, srvClosed, hpc,
                   hsid, hrec, wvars, ctlConn, acked>>

CtlRecv ==
    /\ ctlConn # NoConn
    /\ d2c[ctlConn] # <<>>
    /\ d2c' = [d2c EXCEPT ![ctlConn] = Tail(@)]
    /\ UNCHANGED <<xvars, lvars, hvars, rvars,
                   dvars, nextConn, owner, c2d, cliClosed, srvClosed, hpc,
                   hsid, hrec, wvars, tvars>>

Requests ==
    {MsgListSessions}
    \cup {MsgQuerySession(i, 2) : i \in Idents}
    \cup {MsgWriteSession(i, t) : i \in Idents, t \in Texts}

(***************************************************************************)
(* Peers: any process may dial the socket and speak the wrapper's side of  *)
(* the protocol; handleConn serves whatever arrives.  A peer registers     *)
(* with the collab flag of the run.  Every record is under the 1 MiB the   *)
(* daemon's scanner accepts.                                               *)
(***************************************************************************)
PeerDial ==
    /\ Cardinality({c \in ConnIds : owner[c] = "peer"}) < MaxPeers
    /\ Dial("peer")
    /\ UNCHANGED <<xvars, lvars, hvars, rvars,
                   dvars, c2d, d2c, cliClosed, srvClosed, hsid, hrec,
                   wvars, tvars>>

PeerRecords ==
    {MsgRegister(Title, collab, sid) : sid \in {WID, OtherID}}
    \cup {MsgOutput(<<line>>) : line \in {<<"ESC", "y", "ESC">>}}
    \cup {MsgReplay(<<line>>, cmd) : line \in {<<"x">>}, cmd \in Commands}
    \cup {MsgDisconnect}

PeerSend(c, rec) ==
    /\ owner[c] = "peer"
    /\ ~cliClosed[c]
    /\ ~srvClosed[c]
    /\ nreq < MaxSend
    /\ nreq' = nreq + 1
    /\ c2d' = [c2d EXCEPT ![c] = Append(@, rec)]
    /\ UNCHANGED <<xvars, lvars, hvars, rvars,
                   dvars, nextConn, owner, d2c, cliClosed, srvClosed, hpc,
                   hsid, hrec, wvars, ctlConn, acked>>

PeerClose(c) ==
    /\ owner[c] = "peer"
    /\ ~cliClosed[c]
    /\ cliClosed' = [cliClosed EXCEPT ![c] = TRUE]
    /\ d2c' = [d2c EXCEPT ![c] = <<>>]
    /\ UNCHANGED <<xvars, lvars, hvars, rvars,
                   dvars, nextConn, owner, c2d, srvClosed, hpc, hsid, hrec,
                   wvars, tvars>>

\* The tool host closes its connection (DaemonClient.Close).
CtlClose ==
    /\ ctlConn # NoConn
    /\ ctlConn' = NoConn
    /\ cliClosed' = CloseAt(cliClosed, ctlConn)
    /\ d2c' = Drop(d2c, ctlConn)
    /\ UNCHANGED <<xvars, lvars, hvars, rvars,
                   dvars, nextConn, owner, c2d, srvClosed, hpc, hsid, hrec,
                   wvars, nreq, acked>>

(***************************************************************************)
(* Specification.                                                          *)
(***************************************************************************)
Next ==
    \/ \E c \in ConnIds : HandleRegister(c)
    \/ \E c \in ConnIds : HandleRegisterAck(c)
    \/ \E c \in ConnIds : HandleOutput(c)
    \/ \E c \in ConnIds : HandleReplay(c)
    \/ \E c \in ConnIds : HandleCommand(c)
    \/ \E c \in ConnIds : HandleDisconnect(c)
    \/ \E c \in ConnIds : HandleEOF(c)
    \/ \E c \in ConnIds : HandleListSessions(c)
    \/ \E c \in ConnIds : HandleQuerySession(c)
    \/ \E c \in ConnIds : HandleWriteSession(c)
    \/ DaemonCrash
    \/ DaemonStart
    \/ WInitDial
    \/ WTick
    \/ WRegister
    \/ WReadAck
    \/ WReplaySnap
    \/ WReplaySend
    \/ WSetPtmx
    \/ WRunReaders
    \/ \E line \in RawLines : WOutput(line)
    \/ \E cmd \in Commands : WCommand(cmd)
    \/ \E c \in ConnIds : WReader(c)
    \/ WShutdown
    \/ CtlDial
    \/ \E req \in Requests : CtlSend(req)
    \/ CtlRecv
    \/ CtlClose
    \/ PeerDial
    \/ \E c \in ConnIds, rec \in PeerRecords : PeerSend(c, rec)
    \/ \E c \in ConnIds : PeerClose(c)

Spec == Init /\ [][Next]_vars

\* The wrapper and the daemon alone: no tool host.
NextLink ==
    \/ \E c \in ConnIds : HandleRegister(c)
    \/ \E c \in ConnIds : HandleRegisterAck(c)
    \/ \E c \in ConnIds : HandleOutput(c)
    \/ \E c \in ConnIds : HandleReplay(c)
    \/ \E c \in ConnIds : HandleCommand(c)
    \/ \E c \in ConnIds : HandleDisconnect(c)
    \/ \E c \in ConnIds : HandleEOF(c)
    \/ DaemonCrash
    \/ DaemonStart
    \/ WInitDial
    \/ WTick
    \/ WRegister
    \/ WReadAck
    \/ WReplaySnap
    \/ WReplaySend
    \/ WSetPtmx
    \/ WRunReaders
    \/ \E line \in RawLines : WOutput(line)
    \/ \E cmd \in Commands : WCommand(cmd)
    \/ \E c \in ConnIds : WReader(c)
    \/ WShutdown

SpecLink == Init /\ [][NextLink]_vars

\* The tool host, the daemon and a wrapper whose shell prints nothing; the
\* daemon stays up.
NextCtl ==
    \/ \E c \in ConnIds : HandleRegister(c)
    \/ \E c \in ConnIds : HandleRegisterAck(c)
    \/ \E c \in ConnIds : HandleDisconnect(c)
    \/ \E c \in ConnIds : HandleEOF(c)
    \/ \E c \in ConnIds : HandleListSessions(c)
    \/ \E c \in ConnIds : HandleQuerySession(c)
    \/ \E c \in ConnIds : HandleWriteSession(c)
    \/ WInitDial
    \/ WRegister
    \/ WReadAck
    \/ WReplaySnap
    \/ WSetPtmx
    \/ WRunReaders
    \/ \E c \in ConnIds : WReader(c)
    \/ WShutdown
    \/ CtlDial
    \/ \E req \in Requests : CtlSend(req)
    \/ CtlRecv
    \/ CtlClose

SpecCtl == Init /\ [][NextCtl]_vars

\* The daemon serving peers; the daemon stays up.
NextDaemon ==
    \/ \E c \in ConnIds : HandleRegister(c)
    \/ \E c \in ConnIds : HandleRegisterAck(c)
    \/ \E c \in ConnIds : HandleOutput(c)
    \/ \E c \in ConnIds : HandleReplay(c)
    \/ \E c \in ConnIds : HandleDisconnect(c)
    \/ \E c \in ConnIds : HandleEOF(c)
    \/ PeerDial
    \/ \E c \in ConnIds, rec \in PeerRecords : PeerSend(c, rec)
    \/ \E c \in ConnIds : PeerClose(c)

SpecDaemon == Init /\ [][NextDaemon]_vars

(***************************************************************************)
(* query_session against a session with a buffer of its own size: one     *)
(* peer registers with buffer_size and publishes records of many lines,    *)
(* the tool host makes one round trip at a time.                           *)
(***************************************************************************)
\* every fifth line reads "x", the others "aB"
Fill(n) == [i \in 1..n |-> IF i % 5 = 0 THEN <<"x">> ELSE <<"a", "B">>]

QueryPeerRecords ==
    {MsgRegisterSize(Title, collab, WID, QueryBufferSize),
     MsgOutput(Fill(FillLen))}

\* every combination of given and omitted fields, and negative numbers
QueryRequests ==
    {MsgQuery(i, s, m, n, cur, cnt) :
        i \in {ShortID(WID), <<"z">>}, s \in {Empty, <<"A", "b">>},
        m \in {0, 2}, n \in {0, 2}, cur \in {0, 3}, cnt \in {0, 2}}
    \cup {MsgQuery(WID, s, -1, -1, 0, -1) : s \in {Empty, <<"A", "b">>}}

\* the one peer that publishes the session dials
PublisherDial ==
    /\ \A c \in ConnIds : owner[c] # "peer"
    /\ PeerDial

\* DaemonClient.doRoundTrip, the request: one request is outstanding at a
\* time (the reply is read before roundTrip returns)
CtlQuery(req) ==
    /\ ctlConn # NoConn
    /\ ~srvClosed[ctlConn]
    /\ c2d[ctlConn] = <<>>
    /\ d2c[ctlConn] = <<>>
    /\ c2d' = [c2d EXCEPT ![ctlConn] = Append(@, req)]
    /\ UNCHANGED <<xvars, lvars, hvars, rvars,
                   dvars, nextConn, owner, d2c, cliClosed, srvClosed,
                   hpc, hsid, hrec, wvars, tvars>>

NextQuery ==
    \/ \E c \in ConnIds : HandleRegister(c)
    \/ \E c \in ConnIds : HandleRegisterAck(c)
    \/ \E c \in ConnIds : HandleOutput(c)
    \/ \E c \in ConnIds : HandleQuerySession(c)
    \/ PublisherDial
    \/ \E c \in ConnIds, rec \in QueryPeerRecords : PeerSend(c, rec)
    \/ CtlDial
    \/ \E req \in QueryRequests : CtlQuery(req)
    \/ CtlRecv

SpecQuery == Init /\ [][NextQuery]_vars


(***************************************************************************)
(* One RingBuffer and a task that constructs it, writes it and reads it,   *)
(* one call at a time.  res records the call just made.  Capacities are    *)
(* positive here (NewRingBuffer turns any other into 100000).              *)
(***************************************************************************)
\* lines appended
RBLines == {<<"a">>, <<"A", "b">>}
\* patterns searched for
RBPatterns == {Empty, <<"A">>, <<"b">>}
\* line counts asked for (n, count, maxResults)
RBCounts == (0 - 1)..(MaxCap + 1)
\* sequence numbers read from
RBSeqs == 0..(MaxOps + 1)

otherVars == <<dvars, cvars, wvars, tvars, lvars, hvars, xvars>>

CallNew(capacity) ==
    /\ nops < MaxOps
    /\ nops' = nops + 1
    /\ rb' = NewRingBuffer(capacity)
    /\ hist' = <<>>
    /\ res' = [op |-> "New", capacity |-> capacity]
    /\ UNCHANGED <<otherVars, page, mu, wop, rd, commits>>

CallAppend(line) ==
    /\ nops < MaxOps
    /\ nops' = nops + 1
    /\ rb' = RBAppend(rb, line)
    /\ hist' = Append(hist, line)
    /\ res' = [op |-> "Append", line |-> line, out |-> RBAppendSeq(rb)]
    /\ UNCHANGED <<otherVars, page, mu, wop, rd, commits>>

CallClear ==
    /\ nops < MaxOps
    /\ nops' = nops + 1
    /\ rb' = RBClear(rb)
    /\ hist' = <<>>
    /\ res' = [op |-> "Clear"]
    /\ UNCHANGED <<otherVars, page, mu, wop, rd, commits>>

CallLen ==
    /\ res' = [op |-> "Len", out |-> RBLen(rb)]
    /\ UNCHANGED <<otherVars, rb, hist, nops, page, mu, wop, rd, commits>>

CallTotalSeq ==
    /\ res' = [op |-> "TotalSeq", out |-> RBTotalSeq(rb)]
    /\ UNCHANGED <<otherVars, rb, hist, nops, page, mu, wop, rd, commits>>

CallLastN(n) ==
    /\ res' = [op |-> "LastN", n |-> n, out |-> RBLastN(rb, n)]
    /\ UNCHANGED <<otherVars, rb, hist, nops, page, mu, wop, rd, commits>>

CallReadRange(from, count) ==
    /\ res' = [op |-> "ReadRange", from |-> from, count |-> count,
               out |-> RBReadRange(rb, from, count)]
    /\ UNCHANGED <<otherVars, rb, hist, nops, page, mu, wop, rd, commits>>

CallAllLines ==
    /\ res' = [op |-> "AllLines", out |-> RBAllLines(rb)]
    /\ UNCHANGED <<otherVars, rb, hist, nops, page, mu, wop, rd, commits>>

CallSearch(pattern, maxResults) ==
    /\ res' = [op |-> "Search", pattern |-> pattern,
               maxResults |-> maxResults,
               out |-> RBSearch(rb, pattern, maxResults)]
    /\ UNCHANGED <<otherVars, rb, hist, nops, page, mu, wop, rd, commits>>

NextRB ==
    \/ \E capacity \in 1..MaxCap : CallNew(capacity)
    \/ \E line \in RBLines : CallAppend(line)
    \/ CallClear
    \/ CallLen
    \/ CallTotalSeq
    \/ \E n \in RBCounts : CallLastN(n)
    \/ \E from \in RBSeqs, count \in RBCounts : CallReadRange(from, count)
    \/ CallAllLines
    \/ \E pattern \in RBPatterns, maxResults \in RBCounts :
          CallSearch(pattern, maxResults)

SpecRB == Init /\ [][NextRB]_vars


(***************************************************************************)
(* A caller paging through the RingBuffer: ReadRange(cursor, c) from       *)
(* cursor 0, cursor := next until has_more is false, while the writing     *)
(* task may go on.  page.ver is the number of writes made when the paging  *)
(* began.                                                                  *)
(***************************************************************************)
PageStart(c) ==
    /\ page.pc # "paging"
    /\ page' = [pc |-> "paging", c |-> c, cursor |-> 0, seen |-> <<>>,
                calls |-> 0, ver |-> nops]
    /\ UNCHANGED <<otherVars, rb, hist, nops, res, mu, wop, rd, commits>>

PageCall ==
    /\ page.pc = "paging"
    /\ LET r == RBReadRange(rb, page.cursor, page.c)
       IN page' = [page EXCEPT !.cursor = r.next,
                               !.seen = page.seen \o r.lines,
                               !.calls = page.calls + 1,
                               !.pc = IF r.hasMore THEN "paging"
                                      ELSE "done"]
    /\ UNCHANGED <<otherVars, rb, hist, nops, res, mu, wop, rd, commits>>

NextPage ==
    \/ \E capacity \in 1..MaxCap : CallNew(capacity)
    \/ \E line \in RBLines : CallAppend(line)
    \/ CallClear
    \/ \E c \in 1..(MaxCap + 1) : PageStart(c)
    \/ PageCall

SpecPage == Init /\ [][NextPage]_vars


(***************************************************************************)
(* The RingBuffer under concurrent use: one task writes (Append, Clear),   *)
(* the tasks of Readers read, each call taking rb.mu as the code does.     *)
(* A write is one step per assignment, so that a buffer state between two  *)
(* assignments of a write exists in the model.  commits[t] collects the    *)
(* buffer states that existed between complete writes since reader t's     *)
(* call began (wop.before is the one a write under way started from).      *)
(***************************************************************************)
\* the calls a reading task makes
ReadCalls ==
    {[name |-> "Len"], [name |-> "TotalSeq"], [name |-> "AllLines"],
     [name |-> "LastN", n |-> 2],
     [name |-> "ReadRange", from |-> 0, count |-> 2],
     [name |-> "Search", pattern |-> Empty, maxResults |-> 2]}

\* the result of a read on buffer state b
ReadResult(call, b) ==
    CASE call.name = "Len" -> RBLen(b)
      [] call.name = "TotalSeq" -> RBTotalSeq(b)
      [] call.name = "AllLines" -> RBAllLines(b)
      [] call.name = "LastN" -> RBLastN(b, call.n)
      [] call.name = "ReadRange" -> RBReadRange(b, call.from, call.count)
      [] call.name = "Search" ->
            RBSearch(b, call.pattern, call.maxResults)

\* the buffer is constructed before the tasks start
ConcNew(capacity) ==
    /\ nops = 0
    /\ wop.pc = "idle"
    /\ \A t \in Readers : rd[t].pc = "idle"
    /\ CallNew(capacity)

\* rb.mu.Lock() returns: nobody holds the lock
WLock(call, line) ==
    /\ wop.pc = "idle"
    /\ nops < MaxWrites
    /\ ~mu.w /\ mu.r = 0
    /\ mu' = [mu EXCEPT !.w = TRUE]
    /\ wop' = [pc |-> call, line |-> line, before |-> rb]
    /\ UNCHANGED <<otherVars, rb, hist, nops, res, page, rd, commits>>

\* Append: rb.lines[rb.head] = line
WAppendLine ==
    /\ wop.pc = "append"
    /\ rb' = [rb EXCEPT !.lines[rb.head + 1] = wop.line]
    /\ wop' = [wop EXCEPT !.pc = "append-head"]
    /\ UNCHANGED <<otherVars, hist, nops, res, page, mu, rd, commits>>

\* Append: rb.head = (rb.head + 1) % rb.cap
WAppendHead ==
    /\ wop.pc = "append-head"
    /\ rb' = [rb EXCEPT !.head = (rb.head + 1) % rb.cap]
    /\ wop' = [wop EXCEPT !.pc = "append-count"]
    /\ UNCHANGED <<otherVars, hist, nops, res, page, mu, rd, commits>>

\* Append: if rb.count < rb.cap { rb.count++ }
WAppendCount ==
    /\ wop.pc = "append-count"
    /\ rb' = [rb EXCEPT !.count = IF rb.count < rb.cap THEN rb.count + 1
                                  ELSE rb.count]
    /\ wop' = [wop EXCEPT !.pc = "append-seq"]
    /\ UNCHANGED <<otherVars, hist, nops, res, page, mu, rd, commits>>

\* Append: rb.totalSeq++
WAppendSeq ==
    /\ wop.pc = "append-seq"
    /\ rb' = [rb EXCEPT !.totalSeq = rb.totalSeq + 1]
    /\ hist' = Append(hist, wop.line)
    /\ wop' = [wop EXCEPT !.pc = "unlock"]
    /\ UNCHANGED <<otherVars, nops, res, page, mu, rd, commits>>

\* Clear: rb.head = 0
WClearHead ==
    /\ wop.pc = "clear"
    /\ rb' = [rb EXCEPT !.head = 0]
    /\ wop' = [wop EXCEPT !.pc = "clear-count"]
    /\ UNCHANGED <<otherVars, hist, nops, res, page, mu, rd, commits>>

\* Clear: rb.count = 0
WClearCount ==
    /\ wop.pc = "clear-count"
    /\ rb' = [rb EXCEPT !.count = 0]
    /\ wop' = [wop EXCEPT !.pc = "clear-seq"]
    /\ UNCHANGED <<otherVars, hist, nops, res, page, mu, rd, commits>>

\* Clear: rb.totalSeq = 0
WClearSeq ==
    /\ wop.pc = "clear-seq"
    /\ rb' = [rb EXCEPT !.totalSeq = 0]
    /\ wop' = [wop EXCEPT !.pc = "clear-lines"]
    /\ UNCHANGED <<otherVars, hist, nops, res, page, mu, rd, commits>>

\* Clear: for i := range rb.lines { rb.lines[i] = "" }
WClearLines ==
    /\ wop.pc = "clear-lines"
    /\ rb' = [rb EXCEPT !.lines = [i \in 1..rb.cap |-> Empty]]
    /\ hist' = <<>>
    /\ wop' = [wop EXCEPT !.pc = "unlock"]
    /\ UNCHANGED <<otherVars, nops, res, page, mu, rd, commits>>

\* the deferred rb.mu.Unlock(): the write is complete
WUnlock ==
    /\ wop.pc = "unlock"
    /\ mu' = [mu EXCEPT !.w = FALSE]
    /\ wop' = [pc |-> "idle", line |-> Empty]
    /\ nops' = nops + 1
    /\ commits' = [t \in Readers |->
                     IF rd[t].pc = "idle" THEN commits[t]
                     ELSE commits[t] \cup {rb}]
    /\ UNCHANGED <<otherVars, rb, hist, res, page, rd>>

\* a reading task makes a call
RCall(t, call) ==
    /\ rd[t].pc = "idle"
    /\ rd' = [rd EXCEPT ![t] = [pc |-> "called", op |-> call]]
    /\ commits' = [commits EXCEPT ![t] = {IF mu.w THEN wop.before ELSE rb}]
    /\ UNCHANGED <<otherVars, rb, hist, nops, res, page, mu, wop>>

\* rb.mu.RLock() returning although a writer holds the lock
RLock_NoWait(t) ==
    /\ rd[t].pc = "called"
    /\ mu' = [mu EXCEPT !.r = mu.r + 1]
    /\ rd' = [rd EXCEPT ![t].pc = "locked"]
    /\ UNCHANGED <<otherVars, rb, hist, nops, res, page, wop, commits>>

\* rb.mu.RLock() returns: no writer holds the lock
RLock(t) ==
    /\ rd[t].pc = "called"
    /\ ~mu.w
    /\ mu' = [mu EXCEPT !.r = mu.r + 1]
    /\ rd' = [rd EXCEPT ![t].pc = "locked"]
    /\ UNCHANGED <<otherVars, rb, hist, nops, res, page, wop, commits>>

\* the body of the read
RRead(t) ==
    /\ rd[t].pc = "locked"
    /\ rd' = [rd EXCEPT ![t] = [pc |-> "read", op |-> rd[t].op,
                                out |-> ReadResult(rd[t].op, rb)]]
    /\ UNCHANGED <<otherVars, rb, hist, nops, res, page, mu, wop, commits>>

\* the deferred rb.mu.RUnlock(); the call returns
RUnlock(t) ==
    /\ rd[t].pc = "read"
    /\ mu' = [mu EXCEPT !.r = mu.r - 1]
    /\ rd' = [rd EXCEPT ![t] = IdleReader]
    /\ commits' = [commits EXCEPT ![t] = {}]
    /\ UNCHANGED <<otherVars, rb, hist, nops, res, page, wop>>

NextConc ==
    \/ \E capacity \in 1..MaxCap : ConcNew(capacity)
    \/ \E line \in RBLines : WLock("append", line)
    \/ WLock("clear", Empty)
    \/ WAppendLine
    \/ WAppendHead
    \/ WAppendCount
    \/ WAppendSeq
    \/ WClearHead
    \/ WClearCount
    \/ WClearSeq
    \/ WClearLines
    \/ WUnlock
    \/ \E t \in Readers, call \in ReadCalls : RCall(t, call)
    \/ \E t \in Readers : RLock(t)
    \/ \E t \in Readers : RRead(t)
    \/ \E t \in Readers : RUnlock(t)

SpecConc == Init /\ [][NextConc]_vars


\* NewRingBuffer with every kind of capacity, the default included, and
\* the calls that show the capacity a buffer got.
RBCap(b) == b.cap

NewCaps == (0 - 1)..MaxCap

CallCap ==
    /\ res' = [op |-> "Cap", out |-> RBCap(rb)]
    /\ UNCHANGED <<otherVars, rb, hist, nops, page, mu, wop, rd, commits>>

NextNew ==
    \/ \E capacity \in NewCaps : CallNew(capacity)
    \/ \E line \in RBLines : CallAppend(line)
    \/ CallCap
    \/ CallLen

SpecNew == Init /\ [][NextNew]_vars

(***************************************************************************)
(* The Store and a caller that creates and removes sessions and looks them *)
(* up by id, by prefix, by title and through Resolve.                      *)
(***************************************************************************)
\* Store.Remove
StoreRemove(store, id) == [i \in DOMAIN store \ {id} |-> store[i]]

\* Titles sessions are created with: none, one in upper case that is also
\* a prefix of an id when lowercased, and one that reads like an id.
StoreTitles == {Empty, <<"D">>, OtherID}

\* Strings looked up: the empty string, prefixes of ids in either case,
\* titles in either case, full ids in either case, and a string that is
\* neither.
StoreIdents ==
    {Empty, <<"a">>, <<"A", "B">>, <<"d">>, <<"D">>, WID,
     <<"A", "B", "1">>, OtherID, <<"z">>}

storeOther == <<daemonUp, crashes, cvars, wvars, tvars, rb, hist, nops, page,
                mu, wop, rd, commits, lvars, hvars, xvars>>

CallCreate(id, title) ==
    /\ Cardinality(DOMAIN sessions) < MaxSessions
    /\ id \notin DOMAIN sessions
    /\ sessions' = StoreCreate(sessions, id, title, 1, FALSE, NoConn)
    /\ res' = [op |-> "Create", arg |-> title, out |-> Found(id)]
    /\ UNCHANGED storeOther

CallRemove(id) ==
    /\ sessions' = StoreRemove(sessions, id)
    /\ res' = [op |-> "Remove", arg |-> id]
    /\ UNCHANGED storeOther

CallGet(id) ==
    /\ res' = [op |-> "Get", arg |-> id, out |-> Get(sessions, id)]
    /\ UNCHANGED <<sessions, storeOther>>

CallFindByPrefix(prefix) ==
    /\ \E out \in FindByPrefix(sessions, prefix) :
          res' = [op |-> "FindByPrefix", arg |-> prefix, out |-> out]
    /\ UNCHANGED <<sessions, storeOther>>

CallFindByTitle(title) ==
    /\ \E out \in FindByTitle(sessions, title) :
          res' = [op |-> "FindByTitle", arg |-> title, out |-> out]
    /\ UNCHANGED <<sessions, storeOther>>

CallResolve(identifier) ==
    /\ \E out \in Resolve(sessions, identifier) :
          res' = [op |-> "Resolve", arg |-> identifier, out |-> out]
    /\ UNCHANGED <<sessions, storeOther>>

NextStore ==
    \/ \E id \in UUIDs, title \in StoreTitles : CallCreate(id, title)
    \/ \E id \in UUIDs : CallRemove(id)
    \/ \E id \in UUIDs : CallGet(id)
    \/ \E prefix \in StoreIdents : CallFindByPrefix(prefix)
    \/ \E title \in StoreIdents : CallFindByTitle(title)
    \/ \E identifier \in StoreIdents : CallResolve(identifier)

SpecStore == Init /\ [][NextStore]_vars

(***************************************************************************)
(* streamshd processes started on the same socket path: main and           *)
(* Daemon.Listen, one action per system call.  A dial of the path is       *)
(* answered when the file is there and the listener that bound it is       *)
(* still accepting.                                                        *)
(***************************************************************************)
listenOther == <<dvars, cvars, wvars, tvars, rvars, hvars, xvars>>

\* a listener accepts on the socket file as it is now
Live == sock # "none" /\ starter[sock] = "owner"

\* a streamshd process is started
LStart(s) ==
    /\ starter[s] = "off"
    /\ nstart < MaxStarts
    /\ nstart' = nstart + 1
    /\ starter' = [starter EXCEPT ![s] = "stat"]
    /\ UNCHANGED <<sock, listenOther>>

\* Listen: os.Stat(socketPath)
LStat(s) ==
    /\ starter[s] = "stat"
    /\ starter' = [starter EXCEPT ![s] = IF sock # "none" THEN "dial"
                                         ELSE "listen"]
    /\ UNCHANGED <<sock, nstart, listenOther>>

\* Listen: net.Dial on the path; answered, return ErrDaemonAlreadyRunning,
\* and main goes on as a proxy
LDial(s) ==
    /\ starter[s] = "dial"
    /\ starter' = [starter EXCEPT ![s] = IF Live THEN "proxy" ELSE "remove"]
    /\ UNCHANGED <<sock, nstart, listenOther>>

\* Listen: os.Remove(socketPath)
LRemove(s) ==
    /\ starter[s] = "remove"
    /\ sock' = "none"
    /\ starter' = [starter EXCEPT ![s] = "listen"]
    /\ UNCHANGED <<nstart, listenOther>>

\* Listen: net.Listen binds the path if no file is there; otherwise Listen
\* returns the error and main exits
LListen(s) ==
    /\ starter[s] = "listen"
    /\ IF sock = "none"
       THEN /\ sock' = s
            /\ starter' = [starter EXCEPT ![s] = "owner"]
       ELSE /\ starter' = [starter EXCEPT ![s] = "off"]
            /\ UNCHANGED sock
    /\ UNCHANGED <<nstart, listenOther>>

\* main returns: the owner closes its listener and removes the path, a
\* proxy just ends
LExit(s) ==
    /\ starter[s] \in {"owner", "proxy"}
    /\ sock' = IF starter[s] = "owner" THEN "none" ELSE sock
    /\ starter' = [starter EXCEPT ![s] = "off"]
    /\ UNCHANGED <<nstart, listenOther>>

\* the process is killed: its listener is gone, the file stays
LKill(s) ==
    /\ starter[s] # "off"
    /\ starter' = [starter EXCEPT ![s] = "off"]
    /\ UNCHANGED <<sock, nstart, listenOther>>

NextListen ==
    \/ \E s \in Starters : LStart(s)
    \/ \E s \in Starters : LStat(s)
    \/ \E s \in Starters : LDial(s)
    \/ \E s \in Starters : LRemove(s)
    \/ \E s \in Starters : LListen(s)
    \/ \E s \in Starters : LExit(s)
    \/ \E s \in Starters : LKill(s)

SpecListen == Init /\ [][NextListen]_vars

(***************************************************************************)
(* Reconnection of a wrapper that has run without a daemon for a while:    *)
(* its shell is up, its mirror holds what was printed meanwhile, a command *)
(* may have been typed.                                                    *)
(***************************************************************************)
\* the sequences of at most n elements of S
RECURSIVE SeqsUpTo(_, _)
SeqsUpTo(S, n) ==
    IF n = 0 THEN {<<>>}
    ELSE LET shorter == SeqsUpTo(S, n - 1)
         IN shorter \cup {Append(ls, x) : ls \in shorter, x \in S}

InitReplay ==
    /\ daemonUp = TRUE
    /\ sessions = NewStore
    /\ crashes = 0
    /\ nextConn = 1
    /\ owner = [c \in ConnIds |-> "none"]
    /\ c2d = [c \in ConnIds |-> <<>>]
    /\ d2c = [c \in ConnIds |-> <<>>]
    /\ cliClosed = [c \in ConnIds |-> FALSE]
    /\ srvClosed = [c \in ConnIds |-> FALSE]
    /\ hpc = [c \in ConnIds |-> "none"]
    /\ hsid = [c \in ConnIds |-> NilID]
    /\ hrec = [c \in ConnIds |-> FALSE]
    /\ collab = FALSE
    /\ phase = "up"
    /\ cpc = "idle"
    /\ conn = NoConn
    /\ connected = FALSE
    /\ produced \in SeqsUpTo(RawLines, MaxMirror)
    /\ localBuf = RBAppendAll(NewRingBuffer(LocalBufCap), StripEach(produced))
    /\ lastCommand \in {Empty} \cup Commands
    /\ ncmd = IF lastCommand = Empty THEN 0 ELSE 1
    /\ readers = [c \in ConnIds |-> 0]
    /\ replayLeft = <<>>
    /\ ptyIn = [c \in ConnIds |-> <<>>]
    /\ quiet = TRUE
    /\ ctlConn = NoConn
    /\ nreq = 0
    /\ acked = [c \in ConnIds |-> <<>>]
    /\ rb = NewRingBuffer(1)
    /\ hist = <<>>
    /\ nops = 0
    /\ res = [op |-> "none"]
    /\ page = [pc |-> "idle", c |-> 0, cursor |-> 0, seen |-> <<>>,
               calls |-> 0, ver |-> 0]
    /\ mu = [w |-> FALSE, r |-> 0]
    /\ wop = [pc |-> "idle", line |-> Empty]
    /\ rd = [t \in Readers |-> IdleReader]
    /\ commits = [t \in Readers |-> {}]
    /\ sock = "none"
    /\ starter = [s \in Starters |-> "off"]
    /\ nstart = 0
    /\ snap = <<>>
    /\ sent = <<>>
    /\ cmu = "none"
    /\ wt = [t \in WireTasks |-> IdleTask]
    /\ wire = [c \in ConnIds |-> <<>>]
    /\ cin = NewStdinCopier
    /\ cout = NewPTYCopier
    /\ rt = NewDaemonClient

NextReplay ==
    \/ \E c \in ConnIds : HandleRegister(c)
    \/ \E c \in ConnIds : HandleRegisterAck(c)
    \/ \E c \in ConnIds : HandleOutput(c)
    \/ \E c \in ConnIds : HandleReplay(c)
    \/ \E c \in ConnIds : HandleCommand(c)
    \/ DaemonCrash
    \/ DaemonStart
    \/ WTick
    \/ WRegister
    \/ WReadAck
    \/ WReplaySnap
    \/ WReplaySend
    \/ \E line \in RawLines : WOutput(line)
    \/ \E cmd \in Commands : WCommand(cmd)

SpecReplay == InitReplay /\ [][NextReplay]_vars


(***************************************************************************)
(* The wrapper's socket and the tasks that write to it.  A record goes out *)
(* as enc.Encode: the encoder writes the record's bytes, newline last, to  *)
(* the socket, which takes them in up to MaxFrags pieces.  Every writer    *)
(* is sendMsg or disconnect; the reconnection task replaces the socket.    *)
(***************************************************************************)
wireOther ==
    <<dvars, owner, c2d, d2c, cliClosed, srvClosed, hpc, hsid, hrec, collab,
      phase, cpc, connected, localBuf, lastCommand, readers, replayLeft,
      ptyIn, produced, quiet, ncmd, tvars, rvars, lvars, hvars, cin, cout,
      rt>>

\* records begun so far; Run writes one, the disconnect, and the process
\* ends with it
Begun == wt["pty"].n + wt["stdin"].n + wt["reconn"].n + wt["run"].n
MayBegin(t) ==
    /\ Begun < MaxRecords
    /\ wt["run"].n = 0

\* c.mu.Lock() that does not wait for the holder
SLock_NoWait(t) ==
    /\ wt[t].pc = "idle"
    /\ MayBegin(t)
    /\ cmu' = t
    /\ wt' = [wt EXCEPT ![t] = [pc |-> "locked", n |-> @.n + 1, k |-> 0]]

\* sendMsg / disconnect: c.mu.Lock()
SLock(t) ==
    /\ wt[t].pc = "idle"
    /\ MayBegin(t)
    /\ cmu = "none"
    /\ cmu' = t
    /\ wt' = [wt EXCEPT ![t] = [pc |-> "locked", n |-> @.n + 1, k |-> 0]]

\* task t takes the lock to write a record
WSendLock(t) ==
    /\ SLock(t)
    /\ UNCHANGED <<wireOther, conn, nextConn, wire>>

\* under the lock: if c.conn == nil { return }; otherwise Encode writes the
\* next piece of the record to the socket, and after the last piece
\* disconnect closes the socket and drops it
WSendWrite(t) ==
    /\ wt[t].pc = "locked"
    /\ IF conn = NoConn
       THEN /\ wt' = [wt EXCEPT ![t].pc = "unlock"]
            /\ UNCHANGED <<wire, conn>>
       ELSE LET k == wt[t].k + 1
                last == k = MaxFrags
            IN /\ wire' = [wire EXCEPT ![conn] =
                             Append(@, [task |-> t, n |-> wt[t].n, k |-> k])]
               /\ wt' = [wt EXCEPT ![t].k = k,
                                   ![t].pc = IF last THEN "unlock" ELSE @]
               /\ conn' = IF last /\ t = "run" THEN NoConn ELSE conn
    /\ UNCHANGED <<wireOther, nextConn, cmu>>

\* the deferred c.mu.Unlock()
WSendUnlock(t) ==
    /\ wt[t].pc = "unlock"
    /\ cmu' = IF cmu = t THEN "none" ELSE cmu
    /\ wt' = [wt EXCEPT ![t].pc = "idle"]
    /\ UNCHANGED <<wireOther, conn, nextConn, wire>>

\* reconnectionLoop, under the lock: close and drop the old connection
WireTick ==
    /\ wt["reconn"].pc = "idle"
    /\ wt["run"].n = 0
    /\ cmu = "none"
    /\ conn # NoConn
    /\ conn' = NoConn
    /\ UNCHANGED <<wireOther, nextConn, cmu, wt, wire>>

\* connect(), under the lock: c.conn = conn; c.enc = json.NewEncoder(conn)
WireConnect ==
    /\ wt["reconn"].pc = "idle"
    /\ wt["run"].n = 0
    /\ cmu = "none"
    /\ conn = NoConn
    /\ nextConn <= MaxConn
    /\ conn' = nextConn
    /\ nextConn' = nextConn + 1
    /\ UNCHANGED <<wireOther, cmu, wt, wire>>

NextWire ==
    \/ \E t \in WireTasks : WSendLock(t)
    \/ \E t \in WireTasks : WSendWrite(t)
    \/ \E t \in WireTasks : WSendUnlock(t)
    \/ WireTick
    \/ WireConnect

SpecWire == Init /\ [][NextWire]_vars


(***************************************************************************)
(* The stdin copier.  Bytes are numbers; a read returns 1..MaxRead bytes.  *)
(***************************************************************************)
\* 'a', CR, LF, DEL, backspace, ESC
StdinBytes == {97, 13, 10, 127, 8, 27}

RECURSIVE Chunks(_, _)
\* what one Read can return: 1..n bytes
Chunks(B, n) ==
    IF n = 0 THEN {}
    ELSE {<<b>> : b \in B}
         \cup {<<b>> \o c : b \in B, c \in Chunks(B, n - 1)}

copyOther ==
    <<dvars, cvars, wvars, tvars, rvars, lvars, hvars, cmu, wt, wire, rt>>

\* Client.sendCommand as the copier sees it: an empty command is dropped,
\* any other becomes the last command and, when connected, a record
SendCommand(st, cmd) ==
    IF cmd = <<>> THEN st ELSE [st EXCEPT !.cmds = Append(@, cmd)]

\* copyStdinToPTY: the body of `for _, b := range buf[:n]`
DetectByte(st, b) ==
    IF b = 13 \/ b = 10
    THEN SendCommand([st EXCEPT !.flushed = Append(@, st.cmdBuf),
                                !.cmdBuf = <<>>], st.cmdBuf)
    ELSE IF b = 127 \/ b = 8
    THEN IF Len(st.cmdBuf) > 0
         THEN [st EXCEPT !.cmdBuf = SubSeq(@, 1, Len(@) - 1)]
         ELSE st
    ELSE IF b >= 32
    THEN [st EXCEPT !.cmdBuf = Append(@, b)]
    ELSE st

RECURSIVE DetectLoop(_, _, _)
DetectLoop(st, chunk, i) ==
    IF i > Len(chunk) THEN st
    ELSE DetectLoop(DetectByte(st, chunk[i]), chunk, i + 1)

\* copyStdinToPTY: one os.Stdin.Read with n > 0: write the bytes to the PTY
\* master, then run the detector over them
StdinRead(chunk) ==
    /\ Len(cin.in) + Len(chunk) <= MaxStdin
    /\ cin' = DetectLoop([cin EXCEPT !.in = @ \o chunk, !.fwd = @ \o chunk],
                         chunk, 1)
    /\ UNCHANGED <<copyOther, cout>>

NextStdin == \E chunk \in Chunks(StdinBytes, MaxRead) : StdinRead(chunk)

SpecStdin == Init /\ [][NextStdin]_vars


(***************************************************************************)
(* The PTY copier.                                                         *)
(***************************************************************************)
\* 'a', CR, LF, ESC
PtyBytes == {97, 13, 10, 27}

\* the line loop with CR ending a line as LF does
SplitByte_CR(st, b) ==
    IF b = 10 \/ b = 13
    THEN [st EXCEPT !.batch = Append(@, st.lineBuf), !.lineBuf = <<>>]
    ELSE [st EXCEPT !.lineBuf = Append(@, b)]

\* copyPTYToStdout: the body of `for _, b := range buf[:n]`
SplitByte(st, b) ==
    IF b = 10
    THEN [st EXCEPT !.batch = Append(@, st.lineBuf), !.lineBuf = <<>>]
    ELSE [st EXCEPT !.lineBuf = Append(@, b)]

RECURSIVE SplitLoop(_, _, _)
SplitLoop(st, chunk, i) ==
    IF i > Len(chunk) THEN st
    ELSE SplitLoop(SplitByte(st, chunk[i]), chunk, i + 1)

\* copyPTYToStdout, the part under `if n > 0`: write the bytes to stdout,
\* assemble lines, hand a non-empty batch to sendOutput
PtyChunk(c, chunk) ==
    IF chunk = <<>> THEN c
    ELSE LET st == SplitLoop([lineBuf |-> c.lineBuf, batch |-> <<>>],
                             chunk, 1)
         IN [c EXCEPT !.in = @ \o chunk,
                      !.out = @ \o chunk,
                      !.lineBuf = st.lineBuf,
                      !.lines = @ \o st.batch]

\* copyPTYToStdout: one ptmx.Read that returns bytes and no error
PtyRead(chunk) ==
    /\ ~cout.eof
    /\ Len(cout.in) + Len(chunk) <= MaxPty
    /\ cout' = PtyChunk(cout, chunk)
    /\ UNCHANGED <<copyOther, cin>>

\* copyPTYToStdout: the ptmx.Read that returns an error, with or without
\* bytes: the part under `if n > 0`, then the flush of a non-empty line
\* buffer, and the copier returns
PtyEOF(chunk) ==
    /\ ~cout.eof
    /\ Len(cout.in) + Len(chunk) <= MaxPty
    /\ LET c == PtyChunk(cout, chunk)
       IN cout' = [c EXCEPT !.eof = TRUE,
                            !.lineBuf = <<>>,
                            !.lines = IF Len(c.lineBuf) > 0
                                      THEN Append(@, c.lineBuf) ELSE @]
    /\ UNCHANGED <<copyOther, cin>>

NextPty ==
    \/ \E chunk \in Chunks(PtyBytes, MaxRead) : PtyRead(chunk)
    \/ \E chunk \in {<<>>} \cup Chunks(PtyBytes, MaxRead) : PtyEOF(chunk)

SpecPty == Init /\ [][NextPty]_vars


(***************************************************************************)
(* The daemon serving publishers that send anything: registers with good   *)
(* and bad ids, unstripped lines in output and replay records, commands,   *)
(* lines that are not JSON.  The daemon stays up and the publishers keep   *)
(* their connections open until they send a disconnect.                    *)
(***************************************************************************)
\* a line of the stream that json.Unmarshal rejects
MsgBad == [type |-> "bad"]

\* a bad message that ends handleConn as a disconnect does
HandleBad_Return(c) ==
    /\ Reads(c, "bad")
    /\ sessions' = Teardown(sessions, hsid[c])
    /\ Return(c)
    /\ UNCHANGED <<xvars, lvars, hvars, rvars,
                   daemonUp, crashes, nextConn, owner, d2c, cliClosed,
                   hsid, hrec, wvars, tvars>>

\* json.Unmarshal fails: log "bad message" and continue with the next line
HandleBad(c) ==
    /\ Reads(c, "bad")
    /\ Consume(c)
    /\ UNCHANGED <<xvars, lvars, hvars, rvars,
                   dvars, nextConn, owner, d2c, cliClosed, srvClosed, hpc,
                   hsid, hrec, wvars, tvars>>

BindRecords ==
    {MsgRegister(Title, collab, sid) : sid \in {WID, OtherID, <<"z">>}}
    \cup {MsgOutput(<<line>>) : line \in {<<"ESC", "y", "ESC">>}}
    \cup {MsgReplay(<<line>>, Empty) : line \in {<<"ESC", "y", "ESC">>}}
    \cup {MsgCommand(cmd) : cmd \in Commands}
    \cup {MsgDisconnect, MsgBad}

NextBind ==
    \/ \E c \in ConnIds : HandleRegister(c)
    \/ \E c \in ConnIds : HandleRegisterAck(c)
    \/ \E c \in ConnIds : HandleOutput(c)
    \/ \E c \in ConnIds : HandleReplay(c)
    \/ \E c \in ConnIds : HandleCommand(c)
    \/ \E c \in ConnIds : HandleDisconnect(c)
    \/ \E c \in ConnIds : HandleBad(c)
    \/ PeerDial
    \/ \E c \in ConnIds, rec \in BindRecords : PeerSend(c, rec)

SpecBind == Init /\ [][NextBind]_vars


(***************************************************************************)
(* A tool host's DaemonClient making WriteSession calls, one at a time     *)
(* (roundTrip holds dc.mu), against a daemon that may go away; a publisher *)
(* has registered the session the calls name.                              *)
(***************************************************************************)
rtOther ==
    <<dvars, nextConn, owner, cliClosed, srvClosed, hpc, hsid, hrec, wvars,
      tvars, rvars, lvars, hvars, cmu, wt, wire, cin, cout>>

\* requests of WriteSession calls: a session that a publisher registers,
\* and one nobody does
WriteCalls == {MsgWriteSession(i, <<"l", "\n">>) : i \in {WID, <<"z">>}}

\* an error that makes roundTrip send the request again, once
RoundTripErr_Retry(r, err) ==
    IF r.tries < 2
    THEN [r EXCEPT !.pc = "send", !.out = err]
    ELSE [r EXCEPT !.pc = "idle", !.out = err]

\* roundTrip: return Envelope{}, fmt.Errorf(...)
RoundTripErr(r, err) == [r EXCEPT !.pc = "idle", !.out = err]

\* WriteSession calls roundTrip, which takes dc.mu
RTCall(req) ==
    /\ ctlConn # NoConn
    /\ rt.pc = "idle"
    /\ rt.calls < MaxReq
    /\ rt' = [rt EXCEPT !.pc = "send", !.req = req, !.calls = @ + 1,
                        !.tries = 0, !.out = "none"]
    /\ UNCHANGED <<rtOther, c2d, d2c>>

\* roundTrip: dc.enc.Encode(req); the write fails when the daemon's end of
\* the connection is closed
RTSend ==
    /\ rt.pc = "send"
    /\ IF srvClosed[ctlConn]
       THEN /\ rt' = RoundTripErr([rt EXCEPT !.tries = @ + 1],
                                  "sending request")
            /\ UNCHANGED c2d
       ELSE /\ c2d' = [c2d EXCEPT ![ctlConn] = Append(@, rt.req)]
            /\ rt' = [rt EXCEPT !.pc = "scan", !.sends = @ + 1,
                                !.tries = @ + 1]
    /\ UNCHANGED <<rtOther, d2c>>

\* roundTrip: dc.scanner.Scan() and what follows it
RTScan ==
    /\ rt.pc = "scan"
    /\ \/ d2c[ctlConn] # <<>>
       \/ srvClosed[ctlConn]
    /\ IF d2c[ctlConn] # <<>>
       THEN /\ d2c' = [d2c EXCEPT ![ctlConn] = Tail(@)]
            /\ rt' = IF Head(d2c[ctlConn]).type = "error"
                     THEN RoundTripErr(rt, "error reply")
                     ELSE [rt EXCEPT !.pc = "idle", !.out = "ack"]
       ELSE /\ rt' = RoundTripErr(rt, "connection closed")
            /\ UNCHANGED d2c
    /\ UNCHANGED <<rtOther, c2d>>

NextRT ==
    \/ \E c \in ConnIds : HandleRegister(c)
    \/ \E c \in ConnIds : HandleRegisterAck(c)
    \/ \E c \in ConnIds : HandleWriteSession(c)
    \/ DaemonCrash
    \/ PeerDial
    \/ \E c \in ConnIds : PeerSend(c, MsgRegister(Title, collab, WID))
    \/ CtlDial
    \/ \E req \in WriteCalls : RTCall(req)
    \/ RTSend
    \/ RTScan

SpecRT == Init /\ [][NextRT]_vars


\* The wrapper and the daemon with the scheduling the runtime gives them:
\* every task that can take a step eventually takes one (goroutines are
\* scheduled, the 3-second ticker keeps firing, a stopped daemon is started
\* again).  What the shell prints, what the user types, when the shell
\* exits and when the daemon dies are left to the environment.
WrapperStep ==
    \/ WInitDial
    \/ WTick
    \/ WRegister
    \/ WReadAck
    \/ WReplaySnap
    \/ WReplaySend
    \/ WSetPtmx
    \/ WRunReaders

ReaderStep == \E c \in ConnIds : WReader(c)

HandlerStep ==
    \E c \in ConnIds :
        \/ HandleRegister(c)
        \/ HandleRegisterAck(c)
        \/ HandleOutput(c)
        \/ HandleReplay(c)
        \/ HandleCommand(c)
        \/ HandleDisconnect(c)
        \/ HandleEOF(c)

FairLink ==
    /\ SpecLink
    /\ WF_vars(WrapperStep)
    /\ WF_vars(ReaderStep)
    /\ WF_vars(HandlerStep)
    /\ WF_vars(DaemonStart)

(***************************************************************************)
(* Properties.                                                             *)
(***************************************************************************)
\* the last n elements of a sequence, all of them when it has fewer
LastMin(ls, n) ==
    IF Len(ls) <= n THEN ls ELSE SubSeq(ls, Len(ls) - n + 1, Len(ls))

\* The wrapper's current connection is registered at the daemon, connect()
\* has returned, and the daemon has read everything sent on the connection.
ReplayProcessed ==
    /\ Running
    /\ phase # "init"
    /\ cpc = "idle"
    /\ connected
    /\ conn # NoConn
    /\ daemonUp
    /\ hpc[conn] = "run"
    /\ hsid[conn] = WID
    /\ c2d[conn] = <<>>

\* C1: when the wrapper has (re)registered its id, no line was produced
\* since, and the replay has been processed, the daemon session of that id
\* holds the lines of the wrapper's mirror in order (the last cap of them).
C1_ReplayEqualsMirror ==
    (ReplayProcessed /\ quiet) =>
        /\ Has(sessions, WID)
        /\ RBAllLines(sessions[WID].buffer)
             = LastMin(RBAllLines(localBuf), sessions[WID].buffer.cap)

\* handleConn of c takes the first half of a register (create or find the
\* session and bind it) / the second half (clear, ack)
RegisterStep(c) == daemonUp /\ hpc[c] = "run" /\ hpc'[c] = "bound"
RegisterAckStep(c) == daemonUp /\ hpc[c] = "bound" /\ hpc'[c] = "run"

\* C2: a register with an id that is in the store adds no session, binds
\* the connection to the session it found, sets connected, and the session's
\* buffer is empty (count 0, total 0) when the register has been handled,
\* no record of the connection having been read in between; a register with
\* an id that is not in the store adds exactly the session of that id.
C2_Resumption ==
    [][\A c \in ConnIds :
         /\ RegisterStep(c) =>
              LET id == Head(c2d[c]).sessionID
              IN /\ hsid'[c] = id
                 /\ Has(sessions', id)
                 /\ sessions'[id].connected
                 /\ sessions'[id].clientConn
                      = (IF Head(c2d[c]).collab THEN c ELSE NoConn)
                 /\ hrec'[c] = Has(sessions, id)
                 /\ IF Has(sessions, id)
                    THEN DOMAIN sessions' = DOMAIN sessions
                    ELSE /\ DOMAIN sessions' = DOMAIN sessions \cup {id}
                         /\ Cardinality(DOMAIN sessions')
                              = Cardinality(DOMAIN sessions) + 1
                         /\ RBLen(sessions'[id].buffer) = 0
         /\ RegisterAckStep(c) =>
              /\ DOMAIN sessions' = DOMAIN sessions
              /\ c2d'[c] = c2d[c]
              /\ hrec[c] =>
                   /\ sessions'[hsid[c]].buffer.count = 0
                   /\ sessions'[hsid[c]].buffer.totalSeq = 0
                   /\ RBAllLines(sessions'[hsid[c]].buffer) = <<>>
      ]_vars

\* C2 witness: two live handlers are bound to the same id - the later
\* register found the session of the earlier one - and the buffer is empty
\* with total 0 although a replay, which left its command, had filled it.
C2_Resumed ==
    \E c1, c2 \in ConnIds :
        /\ c1 < c2
        /\ hpc[c1] = "run" /\ hpc[c2] = "run"
        /\ c2d[c1] = <<>> /\ c2d[c2] = <<>>
        /\ hsid[c1] = WID /\ hsid[c2] = WID
        /\ Has(sessions, WID)
        /\ sessions[WID].connected
        /\ sessions[WID].lastCommand # Empty
        /\ RBLen(sessions[WID].buffer) = 0
        /\ sessions[WID].buffer.totalSeq = 0

\* No record of a connection is waiting for its handler, and no handler is
\* in the middle of a register or has yet to see its connection closed.
Quiescent ==
    \A c \in ConnIds :
        /\ hpc[c] # "bound"
        /\ hpc[c] = "run" => (c2d[c] = <<>> /\ ~cliClosed[c])

\* an open wrapper connection is bound to the id
BoundOpen(id) ==
    \E c \in ConnIds :
        /\ owner[c] = "wrapper"
        /\ hpc[c] = "run"
        /\ ~cliClosed[c]
        /\ hsid[c] = id

\* C3: once the handlers have run, a session is connected exactly when an
\* open wrapper connection is bound to its id.
C3_ConnectedIffBound ==
    (daemonUp /\ Quiescent) =>
        \A id \in DOMAIN sessions : sessions[id].connected <=> BoundOpen(id)

\* handleConn of c returns, on a disconnect record or at the end of the
\* stream
TeardownStep(c) == daemonUp /\ daemonUp' /\ hpc[c] = "run" /\ hpc'[c] = "done"

Attached ==
    /\ connected
    /\ conn # NoConn
    /\ hpc[conn] = "run"
    /\ hsid[conn] = WID
    /\ Has(sessions, WID)
    /\ DOMAIN sessions = {WID}

\* C5: once the daemon is back for good, a wrapper that keeps running is
\* eventually attached again under its id (unless the model has run out of
\* connections).
C5_Reattaches ==
    (daemonUp /\ crashes = MaxCrash) ~>
        (Attached \/ ~Running \/ nextConn > MaxConn)

\* C6: the local mirror holds the stripped form of every line handed to
\* sendOutput, in order (the last LocalBufCap of them), and the wrapper is
\* not brought down by the daemon being away.
C6_MirrorAndAlive ==
    /\ RBAllLines(localBuf) = LastMin(StripEach(produced), LocalBufCap)
    /\ phase # "panicked"


\* handleConn of c reads a write_session request / any control request
WriteStep(c) ==
    /\ Reads(c, "write_session")
    /\ daemonUp'
    /\ c2d'[c] = Tail(c2d[c])

ControlStep(c) ==
    /\ daemonUp /\ daemonUp'
    /\ hpc[c] = "run"
    /\ c2d[c] # <<>>
    /\ Head(c2d[c]).type \in ControlTypes
    /\ c2d'[c] = Tail(c2d[c])

\* the request names a session that takes input: collab, connected, with a
\* client connection both ends of which are open
TakesInput(r) ==
    /\ r.ok
    /\ sessions[r.id].collab
    /\ sessions[r.id].connected
    /\ sessions[r.id].clientConn # NoConn
    /\ Writable(sessions[r.id].clientConn)

\* the request names no session, or one that is not collab, or not
\* connected, or without a client connection
Refused(r) ==
    \/ ~r.ok
    \/ ~sessions[r.id].collab
    \/ ~sessions[r.id].connected
    \/ sessions[r.id].clientConn = NoConn

\* C7: write_session on a session that takes input appends one input
\* record with the request's text to the session's wrapper connection, to
\* no other connection, and replies ack with success, the short id and the
\* length of the text.
C7_WriteDelivers ==
    [][\A c \in ConnIds : WriteStep(c) =>
         LET p == Head(c2d[c])
             text == JSONUnescape(p.text)
             outs == Resolve(sessions, p.session)
         IN (\A r \in outs : TakesInput(r)) =>
              \E r \in outs :
                 LET cc == sessions[r.id].clientConn
                 IN /\ cc # c
                    /\ Len(d2c'[cc]) = Len(d2c[cc]) + 1
                    /\ SubSeq(d2c'[cc], 1, Len(d2c[cc])) = d2c[cc]
                    /\ d2c'[cc][Len(d2c'[cc])].type = "input"
                    /\ JSONUnescape(d2c'[cc][Len(d2c'[cc])].text) = text
                    /\ \A x \in ConnIds \ {c, cc} : d2c'[x] = d2c[x]
                    /\ ~cliClosed[c] =>
                         d2c'[c] = Append(d2c[c],
                            [type |-> "ack", re |-> "write_session",
                             success |-> TRUE, sessionID |-> ShortID(r.id),
                             bytesSent |-> Len(text)])
                    /\ sessions' = sessions
      ]_vars

\* the texts of the input records of a queue, in order
InputTexts(q) ==
    LET ins == SelectSeq(q, LAMBDA m : m.type = "input")
    IN [i \in DOMAIN ins |-> JSONUnescape(ins[i].text)]

\* C7 witness: an input record with the two-character text backslash n
\* waits on a wrapper connection and the success ack for its 2 bytes waits
\* on the tool host's connection.
C7_Delivered ==
    /\ ctlConn # NoConn
    /\ \E cc \in ConnIds :
          /\ owner[cc] = "wrapper"
          /\ InputTexts(d2c[cc]) = << <<"\\", "n">> >>
    /\ \E j \in DOMAIN d2c[ctlConn] :
          /\ d2c[ctlConn][j].type = "ack"
          /\ d2c[ctlConn][j].re = "write_session"
          /\ d2c[ctlConn][j].bytesSent = 2

\* C8: write_session that names no session, or one that is not collab, not
\* connected or without a client connection, is answered with an error,
\* writes to no other connection and changes no session; a session that is
\* not collab gets the not-collaborative error, connected or not.
C8_WriteRefused ==
    [][\A c \in ConnIds : WriteStep(c) =>
         LET p == Head(c2d[c])
             outs == Resolve(sessions, p.session)
         IN (\A r \in outs : Refused(r)) =>
              /\ \A x \in ConnIds \ {c} : d2c'[x] = d2c[x]
              /\ sessions' = sessions
              /\ acked' = acked
              /\ ~cliClosed[c] =>
                   /\ Len(d2c'[c]) = Len(d2c[c]) + 1
                   /\ SubSeq(d2c'[c], 1, Len(d2c[c])) = d2c[c]
                   /\ d2c'[c][Len(d2c'[c])].type = "error"
                   /\ (\A r \in outs : r.ok /\ ~sessions[r.id].collab) =>
                        d2c'[c][Len(d2c'[c])].message = "NotCollab"
      ]_vars

\* C8 witness: the not-collaborative error waits on the tool host's
\* connection for a session that is in the store and disconnected, and no
\* input record was written.
C8_RefusedNotCollab ==
    /\ ctlConn # NoConn
    /\ Has(sessions, WID)
    /\ ~sessions[WID].collab
    /\ ~sessions[WID].connected
    /\ \E j \in DOMAIN d2c[ctlConn] :
          /\ d2c[ctlConn][j].type = "error"
          /\ d2c[ctlConn][j].message = "NotCollab"
    /\ \A c \in ConnIds : acked[c] = <<>> /\ InputTexts(d2c[c]) = <<>>

\* C9: on a wrapper connection that is up, the texts answered with a
\* success ack are those written to the PTY master followed by those of the
\* input records still waiting to be read: none is lost, none is written
\* twice, the order is kept.
C9_AckedInputReachesPTY ==
    \A c \in ConnIds :
        (owner[c] = "wrapper" /\ ~cliClosed[c] /\ ~srvClosed[c]) =>
            acked[c] = ptyIn[c] \o InputTexts(d2c[c])

\* C10: a control request read on a connection appends one reply, ack or
\* error, to that connection in the step that reads it, an ack being the
\* ack of that request's type; the handler keeps running and the connection
\* stays open; nothing else is ever written to a tool host's connection.
C10_OneReplyPerRequest ==
    [][\A c \in ConnIds :
         /\ ControlStep(c) =>
              /\ hpc'[c] = "run"
              /\ ~srvClosed'[c]
              /\ ~cliClosed[c] =>
                   /\ Len(d2c'[c]) = Len(d2c[c]) + 1
                   /\ SubSeq(d2c'[c], 1, Len(d2c[c])) = d2c[c]
                   /\ d2c'[c][Len(d2c'[c])].type \in {"ack", "error"}
                   /\ d2c'[c][Len(d2c'[c])].type = "ack" =>
                        d2c'[c][Len(d2c'[c])].re = Head(c2d[c]).type
         /\ (owner[c] = "control" /\ Len(d2c'[c]) > Len(d2c[c])) =>
              ControlStep(c)
      ]_vars

\* C10 witness: two replies wait on the tool host's connection, an error
\* first and an ack after it, and the handler is still serving it.
C10_ErrorThenAck ==
    /\ ctlConn # NoConn
    /\ hpc[ctlConn] = "run"
    /\ ~srvClosed[ctlConn]
    /\ nreq = 2
    /\ c2d[ctlConn] = <<>>
    /\ Len(d2c[ctlConn]) = 2
    /\ d2c[ctlConn][1].type = "error"
    /\ d2c[ctlConn][2].type = "ack"

(***************************************************************************)
(* The RingBuffer's calls stated over the lines a buffer retains (oldest   *)
(* first) and the number of lines ever appended to it.                     *)
(***************************************************************************)
Min(a, b) == IF a <= b THEN a ELSE b

\* positions 1..Len(lines) whose line contains the pattern, whatever the case
Hits(lines, pattern) ==
    SelectSeq([i \in 1..Len(lines) |-> i],
              LAMBDA i : Contains(ToLower(lines[i]), ToLower(pattern)))

\* the first max hits, oldest first, each with its sequence number
RefSearch(lines, total, pattern, max) ==
    LET hits == Hits(lines, pattern)
        n == IF max <= 0 THEN 0 ELSE Min(max, Len(hits))
    IN [k \in 1..n |-> [seq |-> total - Len(lines) + hits[k] - 1,
                        line |-> lines[hits[k]]]]

\* from is clamped up to the oldest retained sequence first
RefReadRange(lines, total, from0, count) ==
    LET oldest == total - Len(lines)
        from == IF from0 < oldest THEN oldest ELSE from0
    IN IF from >= total \/ count <= 0 \/ lines = <<>>
       THEN [lines |-> <<>>, next |-> from, hasMore |-> FALSE]
       ELSE LET n == Min(count, total - from)
            IN [lines |-> SubSeq(lines, from - oldest + 1, from - oldest + n),
                next |-> from + n,
                hasMore |-> from + n < total]

QueryStep(c) ==
    /\ Reads(c, "query_session")
    /\ daemonUp'
    /\ c2d'[c] = Tail(c2d[c])

\* what a query_session request is to be answered with, mode by mode
ExpectedQuery(lines, total, p) ==
    IF p.search # Empty
    THEN LET found == RefSearch(lines, total, p.search,
                          IF p.maxResults > 0 THEN p.maxResults ELSE 50)
         IN [lines |-> [k \in DOMAIN found |->
                          <<"[", ToString(found[k].seq), "]", " ">>
                              \o found[k].line],
             nextCursor |-> 0, hasMore |-> FALSE]
    ELSE IF p.lastN > 0
    THEN [lines |-> LastMin(lines, p.lastN), nextCursor |-> 0,
          hasMore |-> FALSE]
    ELSE LET r == RefReadRange(lines, total, p.cursor,
                      IF p.count > 0 THEN p.count ELSE 100)
         IN [lines |-> r.lines, nextCursor |-> r.next, hasMore |-> r.hasMore]

\* C11: query_session answers in exactly one mode: a non-empty search wins
\* (at most max_results results, 50 when max_results is not positive, each
\* line prefixed "[seq] "), whatever last_n and cursor say; otherwise a
\* positive last_n asks for the tail; otherwise count lines (100 when count
\* is not positive) are read from cursor.  next_cursor and has_more are set
\* in cursor mode only.
C11_QueryModes ==
    [][\A c \in ConnIds :
         (QueryStep(c) /\ ~cliClosed[c]) =>
            LET p == Head(c2d[c])
                reply == d2c'[c][Len(d2c'[c])]
            IN \E r \in Resolve(sessions, p.session) :
                 IF ~r.ok THEN reply.type = "error"
                 ELSE LET buf == sessions[r.id].buffer
                          e == ExpectedQuery(RBAllLines(buf), RBTotalSeq(buf),
                                             p)
                      IN /\ reply.type = "ack"
                         /\ reply.re = "query_session"
                         /\ reply.lines = e.lines
                         /\ reply.nextCursor = e.nextCursor
                         /\ reply.hasMore = e.hasMore
      ]_vars

\* C11 witness: the tool host holds the answer to a search that named no
\* max_results, against a session with more than 50 matching lines: 50
\* prefixed lines, no cursor.
C11_SearchDefaultMax ==
    /\ ctlConn # NoConn
    /\ d2c[ctlConn] # <<>>
    /\ Head(d2c[ctlConn]).type = "ack"
    /\ Head(d2c[ctlConn]).re = "query_session"
    /\ Len(Head(d2c[ctlConn]).lines) = 50
    /\ Head(Head(d2c[ctlConn]).lines[1]) = "["
    /\ Head(d2c[ctlConn]).totalLines > 50
    /\ ~Head(d2c[ctlConn]).hasMore

(***************************************************************************)
(* RingBuffer.  hist is the list of lines appended since the buffer was    *)
(* constructed or last cleared, so the line of sequence number s is        *)
(* hist[s + 1].                                                            *)
(***************************************************************************)
\* a step of the writing caller
AppendStep == nops' = nops + 1 /\ res'.op = "Append"
ClearStep == nops' = nops + 1 /\ res'.op = "Clear"

\* the lines a buffer of this capacity still holds of those appended
Retained == LastMin(hist, rb.cap)

\* C12: after any sequence of Append and Clear, 0 <= count <= cap,
\* total_seq >= count, 0 <= head < cap, and the lines the buffer retains
\* are those of sequence numbers total_seq - count .. total_seq - 1, each
\* in the slot its sequence number names.
C12_RingInvariant ==
    /\ 0 <= rb.count /\ rb.count <= rb.cap
    /\ rb.totalSeq >= rb.count
    /\ 0 <= rb.head /\ rb.head < rb.cap
    /\ rb.totalSeq = Len(hist)
    /\ \A s \in (rb.totalSeq - rb.count)..(rb.totalSeq - 1) :
          rb.lines[(s % rb.cap) + 1] = hist[s + 1]
    /\ RBAllLines(rb)
         = SubSeq(hist, rb.totalSeq - rb.count + 1, rb.totalSeq)

\* C12 witness: a full buffer that has evicted lines, reached by more calls
\* than the lines appended since it was last emptied.
C12_EvictingAfterReset ==
    /\ rb.count = rb.cap
    /\ rb.totalSeq > rb.count
    /\ nops > rb.totalSeq + 1
    /\ rb.head # 0

\* C13: Append returns the total_seq it found and leaves total_seq one
\* larger: the k-th line appended since construction or the last Clear gets
\* sequence number k - 1, and Len grows by one per Append until it is cap.
C13_AppendSequence ==
    [][AppendStep =>
         /\ res'.out = rb.totalSeq
         /\ rb'.totalSeq = rb.totalSeq + 1
         /\ res'.out = Len(hist') - 1
         /\ RBLen(rb') = IF RBLen(rb) < rb.cap THEN RBLen(rb) + 1
                         ELSE rb.cap
      ]_vars

\* C13 witness: the third line appended since the buffer was emptied got
\* sequence number 2, other calls having come before.
C13_ThirdLineIsTwo ==
    /\ res.op = "Append"
    /\ res.out = 2
    /\ Len(hist) = 3
    /\ nops >= 5

\* C14: an Append that makes more than cap lines appended (since
\* construction or the last Clear) leaves count = cap, total_seq = the
\* number of lines appended, the oldest retained sequence number
\* total_seq - cap, and the cap most recently appended lines in append
\* order: the line overwritten is the oldest.
C14_Eviction ==
    [][(AppendStep /\ Len(hist') > rb.cap) =>
         /\ rb'.count = rb'.cap
         /\ rb'.totalSeq = Len(hist')
         /\ RBAllLines(rb')
              = SubSeq(hist', Len(hist') - rb.cap + 1, Len(hist'))
         /\ RBAllLines(rb') = Tail(RBAllLines(rb)) \o <<res'.line>>
         /\ RBSearch(rb', Empty, 1)[1].seq = rb'.totalSeq - rb'.cap
      ]_vars

\* C14 witness: a buffer of capacity 2 or more has taken more lines than
\* it holds.
C14_Evicted ==
    /\ res.op = "Append"
    /\ rb.cap >= 2
    /\ Len(hist) > rb.cap

\* C15: LastN(n) returns the last min(n, count) lines appended, oldest
\* first, nothing when n <= 0 or the buffer is empty, and leaves the buffer
\* as it was.
C15_LastN ==
    [][res'.op = "LastN" =>
         /\ res'.out = IF res'.n <= 0 \/ rb.count = 0 THEN <<>>
                       ELSE LastMin(hist, Min(res'.n, rb.count))
         /\ rb' = rb
      ]_vars

\* C15 witness: LastN(2) on a buffer of capacity 2 holding the second and
\* third line appended, the newer one in slot 0.
C15_LastTwoWrapped ==
    /\ res.op = "LastN"
    /\ res.n = 2
    /\ Len(res.out) = 2
    /\ rb.cap = 2
    /\ rb.head = 1
    /\ rb.totalSeq = 3

\* C16: ReadRange(from, count) is the reference: from is clamped up to the
\* oldest retained sequence number; then, when from >= total_seq or
\* count <= 0 or the buffer is empty, no lines, next = from, has_more
\* false; otherwise the min(count, total_seq - from) lines from from on,
\* next = from + their number, has_more = (next < total_seq).
C16_ReadRangeIsReference ==
    res.op = "ReadRange" =>
        res.out = RefReadRange(Retained, Len(hist), res.from, res.count)

\* C18: Search(pattern, max) returns the first max retained lines that
\* contain the pattern whatever the case, oldest first, each once and with
\* its sequence number, the numbers strictly increasing; the empty pattern
\* matches every line; max <= 0 or an empty buffer gives nothing.
C18_Search ==
    res.op = "Search" =>
        /\ res.out = RefSearch(Retained, Len(hist), res.pattern,
                               res.maxResults)
        /\ \A k \in DOMAIN res.out :
              /\ res.out[k].line = hist[res.out[k].seq + 1]
              /\ res.out[k].seq >= Len(hist) - Len(Retained)
              /\ k > 1 => res.out[k].seq > res.out[k - 1].seq
        /\ res.pattern = Empty =>
              Len(res.out) = IF res.maxResults <= 0 THEN 0
                             ELSE Min(res.maxResults, Len(Retained))
        /\ (res.maxResults <= 0 \/ hist = <<>>) => res.out = <<>>

\* C18 witness: a search for "A" in a buffer of capacity 2 that has evicted
\* its first line finds the line "a" of sequence number 1 first.
C18_FoundAfterEviction ==
    /\ res.op = "Search"
    /\ res.pattern = <<"A">>
    /\ rb.cap = 2
    /\ rb.totalSeq = 3
    /\ res.out # <<>>
    /\ res.out[1] = [seq |-> 1, line |-> <<"a">>]

\* C20: Clear sets head, count and total_seq to zero and empties every
\* slot, whatever the buffer held; the reads that follow return nothing
\* and the Append that follows returns sequence number 0.
C20_Clear ==
    [][/\ ClearStep =>
            /\ rb'.head = 0 /\ rb'.count = 0 /\ rb'.totalSeq = 0
            /\ \A i \in 1..rb.cap : rb'.lines[i] = Empty
            /\ rb'.cap = rb.cap
       /\ (res.op = "Clear" /\ res'.op = "Len") => res'.out = 0
       /\ (res.op = "Clear" /\ res'.op \in {"LastN", "AllLines", "Search"})
            => res'.out = <<>>
       /\ (res.op = "Clear" /\ AppendStep) => res'.out = 0
      ]_vars

\* C20 witness: a buffer of capacity 2 or more cleared after four calls or
\* more.
C20_Cleared ==
    /\ res.op = "Clear"
    /\ rb.cap >= 2
    /\ nops >= 5

\* the buffer was not written since the paging began
Unwritten == page.ver = nops

\* C17: paging with ReadRange(cursor, c), c > 0, from cursor 0 through a
\* buffer that is not written meanwhile: the lines seen so far are the
\* first of the retained lines, in order and once each; while has_more is
\* true every call has brought c new lines and some are left, so the calls
\* are finitely many; when has_more is false all retained lines were seen,
\* cursor = total_seq, and the calls were as many as pages of c lines are
\* needed (one for an empty buffer).
C17_Pagination ==
    (page.pc # "idle" /\ Unwritten) =>
        /\ page.seen = SubSeq(Retained, 1, Len(page.seen))
        /\ page.pc = "paging" =>
              /\ Len(page.seen) = page.calls * page.c
              /\ page.calls > 0 => Len(page.seen) < Len(Retained)
        /\ page.pc = "done" =>
              /\ page.seen = Retained
              /\ page.seen = RBAllLines(rb)
              /\ page.cursor = rb.totalSeq
              /\ page.calls = IF Retained = <<>> THEN 1
                              ELSE (Len(Retained) + page.c - 1) \div page.c

\* C17 witness: a buffer of capacity 3 that has evicted a line was paged
\* through by two calls of two lines.
C17_PagedEvicted ==
    /\ page.pc = "done"
    /\ Unwritten
    /\ page.c = 2
    /\ page.calls = 2
    /\ Len(page.seen) = 3
    /\ rb.totalSeq > rb.cap

\* C19: a read of the RingBuffer made while another task appends or clears
\* returns what the call returns on one of the buffer states that existed
\* between complete writes during the call; while a reading task holds the
\* lock no write is under way, so no read sees a write half done.
C19_ReadsSeeCompleteWrites ==
    \A t \in Readers :
        /\ rd[t].pc \in {"locked", "read"} => (~mu.w /\ wop.pc = "idle")
        /\ rd[t].pc = "read" =>
              \E b \in commits[t] : rd[t].out = ReadResult(rd[t].op, b)

\* C19 witness: both reading tasks hold the lock; one has read AllLines
\* from a buffer that a write, completed after its call began, had made
\* evict a line.
C19_ReadAfterConcurrentWrite ==
    /\ mu.r = 2
    /\ \E t \in Readers :
          /\ rd[t].pc = "read"
          /\ rd[t].op.name = "AllLines"
          /\ Cardinality(commits[t]) >= 2
          /\ rb.totalSeq > rb.cap

\* the default capacity TestRingBufferDefaultCapacity expects
TestedDefaultCapacity == 10000

\* C21: a RingBuffer constructed with a non-positive capacity has capacity
\* 10 000, and one constructed with a positive capacity c has capacity c:
\* right after NewRingBuffer(capacity), and in what Cap reports of the
\* buffer later.
C21_DefaultCapacity ==
    /\ res.op = "New" =>
          rb.cap = IF res.capacity <= 0 THEN TestedDefaultCapacity
                   ELSE res.capacity
    /\ res.op = "Cap" => res.out = rb.cap

(***************************************************************************)
(* total_seq of the session buffers of the daemon.                         *)
(***************************************************************************)
\* the handler of connection c reads an output record
OutputStep(c) ==
    /\ Reads(c, "output")
    /\ daemonUp'
    /\ c2d'[c] = Tail(c2d[c])

\* a handler finishes the register of a session that was in the store: the
\* sess.Buffer.Clear() of a resumption
ResumptionClear(id) ==
    \E c \in ConnIds : RegisterAckStep(c) /\ hrec[c] /\ hsid[c] = id

IdStartsWith(p) ==
    {id \in DOMAIN sessions :
        \/ HasPrefix(ToLower(id), ToLower(p))
        \/ HasPrefix(ToLower(ShortID(id)), ToLower(p))}

\* the sessions whose title equals t, case ignored
Titled(t) ==
    {id \in DOMAIN sessions : ToLower(sessions[id].title) = ToLower(t)}

\* C23: find_by_prefix(p) returns s exactly when s is the only session whose
\* lowercased full id or short id starts with lowercased p, fails NotFound
\* when none does and Ambiguous when two or more do; the empty prefix
\* matches every session.  This holds of the outcome under every order of
\* the map iteration.
C23_FindByPrefix ==
    res.op = "FindByPrefix" =>
        LET m == IdStartsWith(res.arg)
        IN /\ res.arg = Empty => m = DOMAIN sessions
           /\ m = {} => res.out = Failed("NotFound")
           /\ Cardinality(m) >= 2 => res.out = Failed("Ambiguous")
           /\ \A id \in m : m = {id} => res.out = Found(id)
           /\ res.out.ok => m = {res.out.id}

\* C23 witness: two sessions with the same short id are in the store and
\* the short id, typed in upper case, was found ambiguous.
C23_AmbiguousShortID ==
    /\ res.op = "FindByPrefix"
    /\ res.arg = <<"A", "B">>
    /\ {WID, TwinID} \subseteq DOMAIN sessions
    /\ res.out = Failed("Ambiguous")

\* C24: resolve(s) returns the first success of: lookup by s parsed as a
\* full id, find_by_prefix(s), find_by_title(s); it fails NotFound only when
\* all three fail.
C24_ResolveFirstSuccess ==
    res.op = "Resolve" =>
        LET s == res.arg
            byID == ParseOK(s) /\ Has(sessions, UUIDParse(s))
            byPrefix == IdStartsWith(s)
            byTitle == Titled(s)
        IN IF byID THEN res.out = Found(UUIDParse(s))
           ELSE IF Cardinality(byPrefix) = 1
                THEN res.out.ok /\ byPrefix = {res.out.id}
                ELSE IF byTitle # {}
                     THEN res.out.ok /\ res.out.id \in byTitle
                     ELSE res.out = Failed("NotFound")

\* C25: resolve of the empty string fails Ambiguous whenever the store
\* holds two or more sessions, whatever their titles.
C25_EmptyIsAmbiguous ==
    (/\ res.op = "Resolve"
     /\ res.arg = Empty
     /\ Cardinality(DOMAIN sessions) >= 2)
        => res.out = Failed("Ambiguous")

\* C26: find_by_title(t) returns a session whose title equals t, case
\* ignored, whenever there is one (so the one, when there is exactly one),
\* and fails NotFound otherwise; it never returns a session of another
\* title.
C26_FindByTitle ==
    res.op = "FindByTitle" =>
        LET m == Titled(res.arg)
        IN /\ m = {} => res.out = Failed("NotFound")
           /\ m # {} => res.out.ok /\ res.out.id \in m
           /\ \A id \in m : m = {id} => res.out = Found(id)
           /\ res.out.ok =>
                ToLower(sessions[res.out.id].title) = ToLower(res.arg)

\* C26 witness: a title typed in lower case found the one session that
\* carries it in upper case, among sessions of other titles.
C26_FoundIgnoringCase ==
    /\ res.op = "FindByTitle"
    /\ res.arg = <<"d">>
    /\ res.out.ok
    /\ sessions[res.out.id].title = <<"D">>
    /\ Titled(res.arg) = {res.out.id}
    /\ Cardinality(DOMAIN sessions) >= 3

(***************************************************************************)
(* Daemon startup.                                                         *)
(***************************************************************************)
\* C27: a daemon that is listening keeps its socket file - no other
\* starter removes it, whatever the interleaving of the stat, dial, remove
\* and listen steps of processes started on the same path - so at most one
\* daemon owns the path; and a Listen that dials a live daemon returns
\* AlreadyRunning and leaves the file alone.
C27_OneOwner ==
    /\ \A s \in Starters : starter[s] = "owner" => sock = s
    /\ Cardinality({s \in Starters : starter[s] = "owner"}) <= 1

(***************************************************************************)
(* Replay.                                                                 *)
(***************************************************************************)
\* C28: lines the PTY copier hands over while connect() is under way - the
\* connected flag set, the replay not yet sent - are neither duplicated nor
\* dropped nor reordered at the daemon: when the replay and the output
\* records sent since the register have been processed, the daemon session
\* holds the lines of the wrapper's mirror, each once and in order.
C28_OutputDuringReplay ==
    (ReplayProcessed /\ ~quiet) =>
        /\ Has(sessions, WID)
        /\ RBAllLines(sessions[WID].buffer)
             = LastMin(RBAllLines(localBuf), sessions[WID].buffer.cap)

\* the slices a replay of the lines is to be sent in
NumChunks(lines) == (Len(lines) + chunkSize - 1) \div chunkSize
Slice(lines, k) ==
    SubSeq(lines, (k - 1) * chunkSize + 1, Min(k * chunkSize, Len(lines)))

\* replayBuffer takes its snapshot of the mirror
SnapStep == cpc = "snap" /\ cpc' # "snap"
\* replayBuffer writes a record
ReplaySentStep == sent' # sent /\ sent' # <<>>

\* C29: on entering CONNECTED the wrapper takes the whole mirror, oldest
\* line first, and writes it as replay records: the k-th record carries the
\* k-th slice of at most chunkSize lines, so the records are consecutive,
\* disjoint and none is empty; only the final record carries the last
\* observed command, every earlier one has none; and unless the daemon
\* goes away meanwhile, all slices have been written when connect() returns.
C29_ReplayChunks ==
    /\ [](/\ Len(sent) <= NumChunks(snap)
          /\ \A k \in 1..Len(sent) :
               /\ sent[k].type = "replay"
               /\ sent[k].lines = Slice(snap, k)
               /\ Len(sent[k].lines) \in 1..chunkSize
               /\ k < NumChunks(snap) => sent[k].lastCommand = Empty
          /\ (crashes = 0 /\ cpc \notin {"snap", "replay"})
                => Len(sent) = NumChunks(snap))
    /\ [][/\ SnapStep => snap' = RBAllLines(localBuf) /\ sent' = <<>>
          /\ ReplaySentStep =>
               /\ sent' = Append(sent, c2d'[conn][Len(c2d'[conn])])
               /\ Len(sent') = NumChunks(snap) =>
                    sent'[Len(sent')].lastCommand = lastCommand
         ]_vars

\* C29 witness: a mirror of more lines than one record takes was replayed
\* in two records, the command in the second.
C29_TwoRecords ==
    /\ cpc = "idle"
    /\ connected
    /\ Len(snap) > chunkSize
    /\ Len(sent) = 2
    /\ sent[1].lastCommand = Empty
    /\ sent[2].lastCommand # Empty
    /\ sent[1].lines \o sent[2].lines = snap

\* C30: when a wrapper that has observed a non-empty command has
\* reconnected and its replay is processed, the daemon session's
\* last_command is the command the wrapper observed last, whatever the
\* mirror holds - no lines included - and whether the command was typed
\* while connected or during the outage.
C30_LastCommandReplayed ==
    (ReplayProcessed /\ lastCommand # Empty) =>
        /\ Has(sessions, WID)
        /\ sessions[WID].lastCommand = lastCommand

(***************************************************************************)
(* Wrapper connection state.                                               *)
(***************************************************************************)
\* connect() stores connected = true
ConnectedStep == ~connected /\ connected'

\* the record at the head of what the daemon wrote to the wrapper's socket
\* is the ack of a register
AckWaiting ==
    /\ conn # NoConn
    /\ d2c[conn] # <<>>
    /\ Head(d2c[conn]).type = "ack"
    /\ Head(d2c[conn]).re = "register"

\* C31: the wrapper enters CONNECTED (connected flag true, replay started)
\* only by reading an ack record that answers its register on the current
\* socket; a register answered by another record, or a socket that closes
\* before the ack, leaves it DISCONNECTED and nothing is replayed.
C31_ConnectedOnlyAfterAck ==
    [][/\ ConnectedStep => AckWaiting
       /\ (cpc = "ack" /\ cpc' # "ack" /\ ~AckWaiting) =>
             (~connected' /\ cpc' \notin {"snap", "replay"})
      ]_vars

\* sendMsg fails: Encode on the wrapper's socket returns an error, which it
\* does when the daemon's end is closed
SendFailStep ==
    /\ Running
    /\ conn # NoConn
    /\ srvClosed[conn]
    /\ \/ cpc \in {"reg", "replay"} /\ cpc' # cpc
       \/ cpc = "replay" /\ replayLeft' # replayLeft
       \/ connected /\ produced' # produced
       \/ connected /\ ncmd' # ncmd

\* the reconnection loop's tick dials
TickDialStep == cpc = "idle" /\ cpc' = "reg" /\ phase # "init"

\* C32: a failed write of a record to the daemon socket moves the wrapper
\* to DISCONNECTED - in that step the connected flag is false, the socket
\* closed and dropped - no record is written to a socket the wrapper has
\* closed, the wrapper keeps running so that its next tick can dial, and a
\* tick that dials has closed the previous socket and takes a fresh one.
C32_SendFailureDisconnects ==
    /\ [](phase # "panicked")
    /\ [][/\ SendFailStep =>
               /\ ~connected'
               /\ conn' = NoConn
               /\ cliClosed'[conn]
               /\ c2d'[conn] = c2d[conn]
          /\ \A c \in ConnIds :
               (owner[c] = "wrapper" /\ cliClosed[c]) =>
                   Len(c2d'[c]) <= Len(c2d[c])
          /\ TickDialStep =>
               /\ owner[conn'] = "none"
               /\ conn # NoConn => cliClosed'[conn]
         ]_vars

\* the input reader that captured the scanner of connection c finds the
\* scanner ended and returns
ReaderEndStep(c) == Running' /\ readers'[c] < readers[c]

\* C33: in collab mode, once the wrapper is CONNECTED and its copiers run,
\* exactly one input reader consumes the records of the current connection
\* and no connection ever has two; a reader that ends sets the wrapper to
\* DISCONNECTED only for its own connection, never for a newer one that
\* replaced it.
C33_OneReaderPerConnection ==
    /\ [](/\ \A c \in ConnIds : readers[c] <= 1
          /\ (collab /\ phase = "up" /\ cpc = "idle" /\ connected
                /\ conn # NoConn) => readers[conn] = 1)
    /\ [][\A c \in ConnIds :
            (ReaderEndStep(c) /\ connected /\ conn # NoConn) => c = conn
         ]_vars

(***************************************************************************)
(* Records on the wrapper's socket.                                        *)
(***************************************************************************)
\* the pieces on a socket form whole records, one after the other, but for
\* a last record that the task holding the lock is still writing
WholeRecords(c) ==
    LET w == wire[c]
    IN \A i \in 1..Len(w) :
         /\ w[i].k > 1 =>
              /\ i > 1
              /\ w[i - 1] = [w[i] EXCEPT !.k = @ - 1]
         /\ w[i].k = 1 => (i = 1 \/ w[i - 1].k = MaxFrags)
         /\ (w[i].k < MaxFrags /\ i = Len(w)) =>
              /\ cmu = w[i].task
              /\ wt[w[i].task].pc = "locked"
              /\ c = conn

\* C34: the records the wrapper's tasks write - output, command, register
\* and replay, disconnect - never interleave within a record: every piece
\* is written by the task that holds the client lock, to the socket that
\* is current under that lock, so each socket carries whole records.
C34_RecordsAtomic ==
    /\ [](\A c \in ConnIds : WholeRecords(c))
    /\ [][\A c \in ConnIds :
            wire'[c] # wire[c] =>
              /\ c = conn
              /\ cmu # "none"
              /\ wt[cmu].pc = "locked"
              /\ wire'[c] = Append(wire[c],
                                [task |-> cmu, n |-> wt[cmu].n,
                                 k |-> wt[cmu].k + 1])
         ]_vars

\* C34 witness: two tasks each wrote a whole record to the same socket, one
\* record after the other.
C34_TwoWriters ==
    \E c \in ConnIds :
        /\ Len(wire[c]) >= 2 * MaxFrags
        /\ wire[c][1].task # wire[c][MaxFrags + 1].task
        /\ wire[c][1].k = 1
        /\ wire[c][MaxFrags + 1].k = 1

(***************************************************************************)
(* The copiers.                                                            *)
(***************************************************************************)
RECURSIVE Edit(_)
\* the command buffer after the bytes of one line: DEL and backspace take
\* the last byte away, a byte >= 0x20 is added, control bytes do nothing
Edit(seg) ==
    IF seg = <<>> THEN <<>>
    ELSE LET b == seg[Len(seg)]
             before == Edit(SubSeq(seg, 1, Len(seg) - 1))
         IN IF b = 127 \/ b = 8
            THEN SubSeq(before, 1, Len(before) - 1)
            ELSE IF b >= 32 THEN Append(before, b)
            ELSE before

\* positions of the bytes b of s that satisfy b \in T
Positions(s, T) == {i \in 1..Len(s) : s[i] \in T}

RECURSIVE SplitAt(_, _)
\* the pieces of s that end at a byte of T, the byte left out, in order
SplitAt(s, T) ==
    IF Positions(s, T) = {} THEN <<>>
    ELSE LET i == CHOOSE j \in Positions(s, T) :
                      \A k \in Positions(s, T) : j <= k
         IN <<SubSeq(s, 1, i - 1)>> \o SplitAt(SubSeq(s, i + 1, Len(s)), T)

\* what is left of s after its last byte of T
Trailing(s, T) ==
    IF Positions(s, T) = {} THEN s
    ELSE LET i == CHOOSE j \in Positions(s, T) :
                      \A k \in Positions(s, T) : j >= k
         IN SubSeq(s, i + 1, Len(s))

\* the command buffers flushed by the CR and LF bytes of s
Flushes(s) ==
    LET segs == SplitAt(s, {13, 10})
    IN [i \in DOMAIN segs |-> Edit(segs[i])]

\* C35: however stdin is cut into reads, every CR or LF byte emits a
\* command carrying the command buffer as it is then - empty included - and
\* resets the buffer; DEL and backspace take away the last buffered byte if
\* there is one, a byte >= 0x20 is appended, other control bytes change
\* nothing; and the PTY master receives every stdin byte, in order.
C35_CommandDetector ==
    /\ cin.fwd = cin.in
    /\ cin.cmdBuf = Edit(Trailing(cin.in, {13, 10}))
    /\ cin.cmds = Flushes(cin.in)

\* C36: however the PTY output is cut into reads, the lines handed to the
\* publisher are the stream split at its LF bytes - the LF left out, CR and
\* every other byte kept, empty lines kept - followed at EOF by what comes
\* after the last LF if and only if that is not empty; a line that spans
\* reads is handed over once, whole, when its LF arrives.
C36_LineSplitter ==
    LET whole == SplitAt(cout.in, {10})
        rest == Trailing(cout.in, {10})
    IN /\ cout.out = cout.in
       /\ ~cout.eof => cout.lines = whole /\ cout.lineBuf = rest
       /\ cout.eof => cout.lines = IF rest = <<>> THEN whole
                                   ELSE Append(whole, rest)

\* C36 witness: at EOF, a line longer than any read, with a CR in it, was
\* handed over whole, and so was an empty line.
C36_LongLineAndEmptyLine ==
    /\ cout.eof
    /\ \E i \in 1..Len(cout.lines) :
         /\ Len(cout.lines[i]) > MaxRead
         /\ \E j \in 1..Len(cout.lines[i]) : cout.lines[i][j] = 13
    /\ \E i \in 1..Len(cout.lines) : cout.lines[i] = <<>>

(***************************************************************************)
(* The daemon and its publishers.                                          *)
(***************************************************************************)
\* the line carries an escape sequence
HasEscape(line) == \E i \in 1..Len(line) : line[i] = "ESC"

\* C37: the daemon strips ANSI escape sequences from the lines of output
\* and of replay records alike, so no line stored in a session buffer
\* carries an escape sequence, whatever a publisher sends.
C37_StoredLinesStripped ==
    \A id \in DOMAIN sessions :
        LET ls == RBAllLines(sessions[id].buffer)
        IN \A i \in 1..Len(ls) : ~HasEscape(ls[i])

\* handleConn of c reads a record of one of the types and goes on
HandledStep(c, types) ==
    /\ daemonUp
    /\ hpc[c] = "run"
    /\ c2d[c] # <<>>
    /\ Head(c2d[c]).type \in types
    /\ \/ c2d'[c] = Tail(c2d[c])
       \/ hpc'[c] = "done"

\* C38: the first register on a connection binds it to one session id for
\* good - a further register on the connection does not change the binding
\* - and every output, replay, command and disconnect record read on the
\* connection changes that session and no other; read before any register,
\* or after only rejected registers, such a record changes no session.
C38_ConnectionBinding ==
    [][\A c \in ConnIds :
         /\ hsid[c] # NilID => hsid'[c] = hsid[c]
         /\ HandledStep(c, {"output", "replay", "command", "disconnect"}) =>
              /\ DOMAIN sessions' = DOMAIN sessions
              /\ \A id \in DOMAIN sessions :
                   id # hsid[c] => sessions'[id] = sessions[id]
      ]_vars

\* C39: a record that cannot be parsed is skipped: reading it changes no
\* session and nothing in the store, writes no reply, leaves the connection
\* open and bound as it was, and the records behind it stay to be read.
C39_BadMessageSkipped ==
    [][\A c \in ConnIds :
         HandledStep(c, {"bad"}) =>
           /\ sessions' = sessions
           /\ d2c' = d2c
           /\ hpc'[c] = "run"
           /\ srvClosed' = srvClosed
           /\ hsid' = hsid
           /\ c2d' = [c2d EXCEPT ![c] = Tail(@)]
      ]_vars

\* C39 witness: one publisher sent three records on one connection - its
\* register, an output record, and ahead of the output a line that does
\* not parse; all were read, the connection is open and bound, one ack was
\* written, and the session holds the output's line.
C39_OutputAfterBadMessage ==
    /\ nextConn = 2
    /\ nreq = 3
    /\ c2d[1] = <<>>
    /\ hpc[1] = "run"
    /\ ~cliClosed[1]
    /\ d2c[1] = <<RegisterAck(WID)>>
    /\ hsid[1] = WID
    /\ Has(sessions, WID)
    /\ sessions[WID].connected
    /\ sessions[WID].lastCommand = Empty
    /\ RBAllLines(sessions[WID].buffer) = <<<<"y">>>>

(***************************************************************************)
(* The tool host's round trips.                                            *)
(***************************************************************************)
RECURSIVE SumLen(_, _)
\* the number of elements of q[1], ..., q[n] together
SumLen(q, n) == IF n = 0 THEN 0 ELSE Len(q[n]) + SumLen(q, n - 1)

\* input records the daemon has written to wrappers so far
InputsEmitted == SumLen(acked, MaxConn)

\* roundTrip writes its request to the connection
RequestSentStep == rt'.sends = rt.sends + 1
\* roundTrip reads an error record as the reply
ErrorReplyStep ==
    /\ rt.pc = "scan"
    /\ rt' # rt
    /\ d2c[ctlConn] # <<>>
    /\ Head(d2c[ctlConn]).type = "error"

=============================================================================
